---- MODULE Spec2Model ----
(***************************************************************************)
(* Model of the tree / forest refinement machinery of oomph-lib            *)
(* (src/src/generic/tree.cc, src/src/generic/quadtree.h).                  *)
(*                                                                         *)
(* Tree nodes and refineable elements live in two heaps ("trees" and       *)
(* "elems"), indexed by object identities 1..MaxObjects; 0 is the null     *)
(* pointer.  Every C++ statement that changes the heaps is an event; an    *)
(* operation is the sequence of events its code executes, and its effect   *)
(* is the fold of ApplyEvent over that sequence.                           *)
(***************************************************************************)
EXTENDS Integers, Sequences, FiniteSets, TLC

\* ------------------------------------------------------------------ bounds
NumTrees    == 2   \* number of TreeRoots the mesh generator puts in the forest
MaxSplits   == 2   \* number of successful splits in one behaviour
MaxSelected == 1   \* elements that request unrefinement at the same time
MaxPrefix   == 1   \* length of the caller's vector handed to stick_*_into_vector

\* ------------------------------------------------------- program constants
OMEGA == 26
SW == 0
SE == 1
NW == 2
NE == 3
NSons == 4
NULL == 0

MaxObjects == NumTrees + NSons * MaxSplits
Ids == 1..MaxObjects

VARIABLES
  trees,       \* heap of Tree objects: id -> record of the Tree data members
  elems,       \* heap of RefineableElement objects
  Trees_pt,    \* TreeForest::Trees_pt
  status,      \* "live", "destroyed" (forest deleted) or "aborted"
  call,        \* the operation executed by the last step
  last_merged, \* node merged by the previous call (NULL if it merged nothing)
  log,         \* events executed by the last step, in program order
  tree_nodes   \* the caller's vector after the last stick_*_into_vector

vars == <<trees, elems, Trees_pt, status, call, last_merged, log, tree_nodes>>

\* the quadtree layer (src/src/generic/quadtree.h)
VARIABLES
  PARANOID,                    \* the build defines the macro PARANOID
  Static_data_has_been_setup,  \* QuadTree::Static_data_has_been_setup
  rotation,         \* the mesh generator's geometry: quarter turns of each root
  Neighbour_pt,     \* TreeRoot::Neighbour_pt of every root
  North_equivalent, \* QuadTreeRoot::North_equivalent of every root
  error,            \* the exception thrown by the last step
  returned          \* the value returned by the last step

qvars == <<PARANOID, Static_data_has_been_setup, rotation, Neighbour_pt,
           North_equivalent, error, returned>>

\* the mesh layer: the nodes of the elements and their equation numbers
VARIABLES
  Node_pt,        \* Mesh::Node_pt: position of a node -> its data members
  global_number,  \* the process-wide counter of the equation numbering
  numbered        \* the mesh has not changed since the last completed pass

mvars == <<Node_pt, global_number, numbered>>

\* ------------------------------------------------------------ heap objects
\* memory states of an object
Unborn  == "unborn"
Alive   == "alive"
Deleted == "deleted"

NoTree == [mem |-> Unborn, Object_pt |-> NULL, Father_pt |-> NULL,
           Son_type |-> OMEGA, Level |-> 0, Root_pt |-> NULL, Son_pt |-> <<>>]

NoElem == [deletes |-> 0, born |-> FALSE, Tree_pt |-> NULL,
           Sons_to_be_unrefined |-> FALSE, unbuilt |-> FALSE,
           internal |-> <<>>]

\* Tree::Tree(object_pt): the data members it sets for a root
TreeCtorRoot(object_pt) ==
  [mem |-> Alive, Object_pt |-> object_pt, Father_pt |-> NULL,
   Son_type |-> OMEGA, Level |-> 0, Root_pt |-> NULL, Son_pt |-> <<>>]

\* a constructor that copies the father's level instead of going one deeper
TreeCtorSon_SameLevel(object_pt, father_pt, son_type) ==
  [mem |-> Alive, Object_pt |-> object_pt, Father_pt |-> father_pt,
   Son_type |-> son_type, Level |-> trees[father_pt].Level,
   Root_pt |-> trees[father_pt].Root_pt, Son_pt |-> <<>>]

\* a constructor that takes the father for the root
TreeCtorSon_RootIsFather(object_pt, father_pt, son_type) ==
  [mem |-> Alive, Object_pt |-> object_pt, Father_pt |-> father_pt,
   Son_type |-> son_type, Level |-> trees[father_pt].Level + 1,
   Root_pt |-> father_pt, Son_pt |-> <<>>]

\* Tree::Tree(object_pt, father_pt, son_type): the data members it sets
TreeCtorSon(object_pt, father_pt, son_type) ==
  [mem |-> Alive, Object_pt |-> object_pt, Father_pt |-> father_pt,
   Son_type |-> son_type, Level |-> trees[father_pt].Level + 1,
   Root_pt |-> trees[father_pt].Root_pt, Son_pt |-> <<>>]

\* accessors of Tree
nsons(n) == Len(trees[n].Son_pt)
son_pt(n, i) == trees[n].Son_pt[i + 1]
object_pt(n) == trees[n].Object_pt
is_leaf(n) == nsons(n) = 0

LiveTrees == {n \in Ids : trees[n].mem = Alive}
LiveElems == {e \in Ids : elems[e].born /\ elems[e].deletes = 0}

\* ------------------------------------------------------------------ events
Ev(kind, id) == [ev |-> kind, id |-> id, arg |-> <<>>]
EvArg(kind, id, arg) == [ev |-> kind, id |-> id, arg |-> arg]

Range(v) == {v[i] : i \in 1..Len(v)}

RECURSIVE Flatten(_)
Flatten(ss) == IF ss = <<>> THEN <<>> ELSE Head(ss) \o Flatten(Tail(ss))

\* ---------------------------------------- internal pressure (Crouzeix-Raviart)
\* The values of internal_data_pt(P_pnst_internal_index) of an element are the
\* sequence <<value 0, value 1, value 2>>; an element without internal
\* pressure (Taylor-Hood) has <<>>.  A local coordinate is kept as twice its
\* value, so that the midpoints of the sons are at -1 and 1.
Half(x) == x \div 2

\* the midpoint of the son of type son_type in the father, doubled
s_father(son_type) ==
  CASE son_type = SW -> <<-1, -1>>
    [] son_type = SE -> <<1, -1>>
    [] son_type = NE -> <<1, 1>>
    [] son_type = NW -> <<-1, 1>>

\* PolarCrouzeixRaviartElement::interpolated_p_pnst at the doubled local
\* coordinate s: the pressure shape functions are 1, s[0], s[1]
interpolated_p_pnst(P, s) == P[1] + Half(P[2] * s[1]) + Half(P[3] * s[2])

\* RefineablePolarCrouzeixRaviartElement::further_build of element e: the
\* values it sets in the son's internal data
further_build(h, e) ==
  LET quadtree_pt == h.elems[e].Tree_pt
      son_type == h.trees[quadtree_pt].Son_type
      father_el_pt == h.trees[h.trees[quadtree_pt].Father_pt].Object_pt
      P == h.elems[father_el_pt].internal IN
  IF P = <<>> THEN <<>>
  ELSE << interpolated_p_pnst(P, s_father(son_type)), Half(P[2]), Half(P[3]) >>

\* a rebuild that takes the sum of the sons' central pressures for their
\* average
rebuild_from_sons_Sum(h, e) ==
  LET quadtree_pt == h.elems[e].Tree_pt
      value0(ison) ==
        h.elems[h.trees[h.trees[quadtree_pt].Son_pt[ison + 1]].Object_pt]
          .internal[1] IN
  << value0(0) + value0(1) + value0(2) + value0(3),
     Half((value0(SE) - value0(SW)) + (value0(NE) - value0(NW))),
     Half((value0(NE) - value0(SE)) + (value0(NW) - value0(SW))) >>

\* RefineablePolarCrouzeixRaviartElement::rebuild_from_sons of element e
\* whose tree has its four sons: the values it sets in the internal data
rebuild_from_sons(h, e) ==
  LET quadtree_pt == h.elems[e].Tree_pt
      value0(ison) ==
        h.elems[h.trees[h.trees[quadtree_pt].Son_pt[ison + 1]].Object_pt]
          .internal[1]
      av_press == value0(0) + value0(1) + value0(2) + value0(3) IN
  << av_press \div 4,
     Half((value0(SE) - value0(SW)) + (value0(NE) - value0(NW))),
     Half((value0(NE) - value0(SE)) + (value0(NW) - value0(SW))) >>

\* effect on the heaps of an event of the element interface: new / delete of
\* an element and the RefineableElement members the tree code calls
ApplyElemEvent(h, e) ==
  CASE e.ev = "new_element" ->
         [h EXCEPT !.elems[e.id] = [NoElem EXCEPT !.born = TRUE]]
    [] e.ev = "set_tree_pt" ->
         [h EXCEPT !.elems[e.id].Tree_pt = e.arg]
    [] e.ev = "select_sons_for_unrefinement" ->
         [h EXCEPT !.elems[e.id].Sons_to_be_unrefined = TRUE]
    [] e.ev = "deselect_sons_for_unrefinement" ->
         [h EXCEPT !.elems[e.id].Sons_to_be_unrefined = FALSE]
    [] e.ev = "unbuild" ->
         [h EXCEPT !.elems[e.id].unbuilt = TRUE]
    [] e.ev = "build" ->
         [h EXCEPT !.elems[e.id].internal = further_build(h, e.id)]
    [] e.ev = "rebuild_from_sons" ->
         IF h.elems[e.id].internal # <<>> /\ Len(h.trees[e.arg].Son_pt) = NSons
         THEN [h EXCEPT !.elems[e.id].internal = rebuild_from_sons(h, e.id)]
         ELSE h
    [] e.ev = "set_value" ->
         [h EXCEPT !.elems[e.id].internal[1] = e.arg]
    [] e.ev \in {"delete_object", "dtor_delete_object"} ->
         [h EXCEPT !.elems[e.id].deletes = IF @ < 2 THEN @ + 1 ELSE @,
                   !.elems[e.id].internal = <<>>]
    [] OTHER -> h

\* effect on the heaps of a statement of the tree code
ApplyEvent(h, e) ==
  CASE e.ev = "new_tree" ->
         [h EXCEPT !.trees[e.id] = e.arg]
    [] e.ev = "set_root_pt" ->
         [h EXCEPT !.trees[e.id].Root_pt = e.arg]
    [] e.ev = "set_sons" ->
         [h EXCEPT !.trees[e.id].Son_pt = e.arg]
    [] e.ev = "null_son" ->
         [h EXCEPT !.trees[e.id].Son_pt[e.arg] = NULL]
    [] e.ev = "null_object" ->
         [h EXCEPT !.trees[e.id].Object_pt = NULL]
    [] e.ev = "free_tree" ->
         [h EXCEPT !.trees[e.id].mem = Deleted]
    [] OTHER -> ApplyElemEvent(h, e)

RECURSIVE ApplyAll(_, _)
ApplyAll(h, evs) ==
  IF evs = <<>> THEN h ELSE ApplyAll(ApplyEvent(h, Head(evs)), Tail(evs))

Heap == [trees |-> trees, elems |-> elems]

\* ------------------------------------------------------------ construction
\* Tree::Tree(object_pt) constructing the tree id
Tree_root(id, object_pt_) ==
  << EvArg("new_tree", id, TreeCtorRoot(object_pt_)),
     EvArg("set_tree_pt", object_pt_, id) >>

\* what the mesh generator does for root number r: a new element and a new
\* QuadTreeRoot for it, whose TreeRoot part sets the root pointer
RootEvents(r) ==
  << Ev("new_element", r) >>
  \o Tree_root(r, r)
  \o << EvArg("set_root_pt", r, r) >>

InitHeap ==
  ApplyAll([trees |-> [n \in Ids |-> NoTree], elems |-> [e \in Ids |-> NoElem]],
           Flatten([r \in 1..NumTrees |-> RootEvents(r)]))

\* the caller's vectors handed to stick_*_into_vector
RECURSIVE SeqsUpTo(_, _)
SeqsUpTo(S, k) ==
  IF k = 0 THEN {<<>>}
  ELSE LET shorter == SeqsUpTo(S, k - 1) IN
       shorter \cup {Append(v, x) : v \in shorter, x \in S}

Prefixes == SeqsUpTo({1}, MaxPrefix)

NoCall == [op |-> "none", node |-> NULL, taken |-> FALSE, pre |-> <<>>]

Call(op, n, taken, pre) == [op |-> op, node |-> n, taken |-> taken, pre |-> pre]

\* an operation is called when the forest exists and the previous call has
\* returned
Idle == status = "live" /\ call = NoCall

Called(op, n, taken, pre) ==
  /\ call' = Call(op, n, taken, pre)
  /\ UNCHANGED last_merged
  /\ UNCHANGED qvars
  /\ UNCHANGED mvars

\* a step of operation op on node n that executes the events evs
Run(op, n, taken, evs) ==
  LET h == ApplyAll(Heap, evs) IN
  /\ trees' = h.trees
  /\ elems' = h.elems
  /\ log' = evs
  /\ Called(op, n, taken, <<>>)

\* deleting an object a second time is undefined behaviour
IsDelete(e) == e.ev \in {"delete_object", "dtor_delete_object"}

DoubleDeletes(evs) ==
  {i \in 1..Len(evs) :
     /\ IsDelete(evs[i])
     /\ \/ elems[evs[i].id].deletes > 0
        \/ \E j \in 1..(i - 1) : IsDelete(evs[j]) /\ evs[j].id = evs[i].id}

Min(S) == CHOOSE x \in S : \A y \in S : x <= y

\* outcomes of a run of evs: it runs to its end (every delete returns), or
\* the allocator aborts the program at the first double delete
RunOrAbort(op, n, taken, evs, endstatus) ==
  LET dd == DoubleDeletes(evs) IN
  \/ /\ Run(op, n, taken, evs)
     /\ status' = endstatus
  \/ /\ dd # {}
     /\ Run(op, n, taken, SubSeq(evs, 1, Min(dd)))
     /\ status' = "aborted"

\* ------------------------------------------------------------------- split
NumBorn == Cardinality({n \in Ids : trees[n].mem # Unborn})

\* Tree::Tree(object_pt, father_pt, son_type) constructing the tree id
Tree_son(id, object_pt_, father_pt, son_type) ==
  << EvArg("new_tree", id, TreeCtorSon(object_pt_, father_pt, son_type)),
     EvArg("set_tree_pt", object_pt_, id) >>

\* a construct_son that builds the son with the son type of a root
construct_son_NoSonType(id, object_pt_, father_pt, son_type) ==
  Tree_son(id, object_pt_, father_pt, OMEGA)

\* QuadTree::construct_son: new QuadTree(object_pt, father_pt, son_type)
construct_son(id, object_pt_, father_pt, son_type) ==
  Tree_son(id, object_pt_, father_pt, son_type)

\* a split whose allocator hands out the storage of the sons that were last
\* destroyed under this father as if they were the same objects
SplitEvents_ReuseSons(n) ==
  LET old == {d \in Ids : trees[d].mem = Deleted /\ trees[d].Father_pt = n}
      base == IF old = {} THEN NumBorn ELSE Min(old) - 1 IN
    Flatten([i \in 1..NSons |-> << Ev("new_element", base + i) >>])
    \o Flatten([i \in 1..NSons |-> construct_son(base + i, base + i, n, i - 1)])
    \o << EvArg("set_sons", n, [i \in 1..NSons |-> base + i]) >>
    \o [i \in 1..NSons |-> EvArg("build", base + i, n)]

\* Tree::split_if_required on node n whose element answers to_be_refined()
SplitEvents(n) ==
  LET base == NumBorn IN
    Flatten([i \in 1..NSons |-> << Ev("new_element", base + i) >>])
    \o Flatten([i \in 1..NSons |-> construct_son(base + i, base + i, n, i - 1)])
    \o << EvArg("set_sons", n, [i \in 1..NSons |-> base + i]) >>
    \o [i \in 1..NSons |-> EvArg("build", base + i, n)]

split_if_required(n, to_be_refined) ==
  /\ Idle
  /\ n \in LiveTrees
  /\ is_leaf(n)
  /\ NumBorn + NSons <= MaxObjects
  /\ Run("split", n, to_be_refined,
         IF to_be_refined THEN SplitEvents(n) ELSE <<>>)
  /\ UNCHANGED <<Trees_pt, status, tree_nodes>>

\* ------------------------------------------------- unrefinement and deletion
\* RefineableElement::select_sons_for_unrefinement, called by the error
\* estimator / mesh adaptation on the element of node n
select_sons_for_unrefinement(n) ==
  /\ Idle
  /\ n \in LiveTrees
  /\ ~elems[object_pt(n)].Sons_to_be_unrefined
  /\ Cardinality({e \in LiveElems : elems[e].Sons_to_be_unrefined})
       < MaxSelected
  /\ Run("select", n, TRUE,
         << Ev("select_sons_for_unrefinement", object_pt(n)) >>)
  /\ UNCHANGED <<Trees_pt, status, tree_nodes>>

RECURSIVE TreeDtor(_), DeleteTree(_)
\* the loop of ~Tree over the sons: delete Son_pt[i]; Son_pt[i] = 0
DeleteSons(n) ==
  Flatten([i \in 1..nsons(n) |->
     DeleteTree(son_pt(n, i - 1)) \o << EvArg("null_son", n, i) >>])

\* a destructor that deletes the object of a leaf as well
TreeDtor_AlwaysDeleteObject(n) ==
  DeleteSons(n)
  \o << EvArg("dtor_delete_object", object_pt(n), n), Ev("null_object", n) >>

\* Tree::~Tree
TreeDtor(n) ==
  LET nsons_ == nsons(n) IN
    DeleteSons(n)
    \o (IF nsons_ > 0
        THEN << EvArg("dtor_delete_object", object_pt(n), n),
                Ev("null_object", n) >>
        ELSE <<>>)

\* delete tree_pt: destructor, then the storage is released
DeleteTree(n) == TreeDtor(n) \o << Ev("free_tree", n) >>

\* the body of the loop of merge_sons_if_required for son number ison
KillSon(n, ison) ==
  << EvArg("unbuild", object_pt(son_pt(n, ison)), n),
     EvArg("delete_object", object_pt(son_pt(n, ison)), n) >>
  \o DeleteTree(son_pt(n, ison))

\* a merge that leaves the pointers to the deleted sons in Son_pt
MergeEvents_NoResize(n) ==
  IF elems[object_pt(n)].Sons_to_be_unrefined
  THEN << EvArg("rebuild_from_sons", object_pt(n), n) >>
       \o Flatten([i \in 1..nsons(n) |-> KillSon(n, i - 1)])
       \o << EvArg("deselect_sons_for_unrefinement", object_pt(n), n) >>
  ELSE <<>>

\* a merge that leaves the sons' elements to the tree destructor
MergeEvents_LeakSonObjects(n) ==
  IF elems[object_pt(n)].Sons_to_be_unrefined
  THEN << EvArg("rebuild_from_sons", object_pt(n), n) >>
       \o Flatten([i \in 1..nsons(n) |->
            << EvArg("unbuild", object_pt(son_pt(n, i - 1)), n) >>
            \o DeleteTree(son_pt(n, i - 1))])
       \o << EvArg("set_sons", n, <<>>),
             EvArg("deselect_sons_for_unrefinement", object_pt(n), n) >>
  ELSE <<>>

\* a merge that rebuilds the father after it has killed the sons
MergeEvents_RebuildLast(n) ==
  IF elems[object_pt(n)].Sons_to_be_unrefined
  THEN Flatten([i \in 1..nsons(n) |-> KillSon(n, i - 1)])
       \o << EvArg("set_sons", n, <<>>),
             EvArg("rebuild_from_sons", object_pt(n), n),
             EvArg("deselect_sons_for_unrefinement", object_pt(n), n) >>
  ELSE <<>>

\* a merge that does not withdraw the request for unrefinement
MergeEvents_NoDeselect(n) ==
  IF elems[object_pt(n)].Sons_to_be_unrefined
  THEN << EvArg("rebuild_from_sons", object_pt(n), n) >>
       \o Flatten([i \in 1..nsons(n) |-> KillSon(n, i - 1)])
       \o << EvArg("set_sons", n, <<>>) >>
  ELSE <<>>

\* a merge that takes the father's element out of the tree with the sons'
MergeEvents_DetachObject(n) ==
  IF elems[object_pt(n)].Sons_to_be_unrefined
  THEN << EvArg("rebuild_from_sons", object_pt(n), n) >>
       \o Flatten([ison \in 1..nsons(n) |-> KillSon(n, ison - 1)])
       \o << EvArg("set_sons", n, <<>>),
             EvArg("deselect_sons_for_unrefinement", object_pt(n), n),
             EvArg("set_tree_pt", object_pt(n), NULL) >>
  ELSE <<>>

\* Tree::merge_sons_if_required
MergeEvents(n) ==
  IF elems[object_pt(n)].Sons_to_be_unrefined
  THEN << EvArg("rebuild_from_sons", object_pt(n), n) >>
       \o Flatten([ison \in 1..nsons(n) |-> KillSon(n, ison - 1)])
       \o << EvArg("set_sons", n, <<>>),
             EvArg("deselect_sons_for_unrefinement", object_pt(n), n) >>
  ELSE <<>>

merge_sons_if_required(n) ==
  /\ Idle
  /\ n \in LiveTrees
  /\ RunOrAbort("merge", n, elems[object_pt(n)].Sons_to_be_unrefined,
                MergeEvents(n), "live")
  /\ UNCHANGED <<Trees_pt, tree_nodes>>

\* TreeForest::~TreeForest
ForestDtor ==
  Flatten([i \in 1..Len(Trees_pt) |-> DeleteTree(Trees_pt[i])])

DeleteForest ==
  /\ Idle
  /\ RunOrAbort("delete_forest", NULL, TRUE, ForestDtor, "destroyed")
  /\ Trees_pt' = [i \in 1..Len(Trees_pt) |-> NULL]
  /\ UNCHANGED tree_nodes

\* -------------------------------------------------------------- traversals
\* the member function handed to the traversals: it records the node it is
\* executed at and leaves the tree alone
Visit(n) == << Ev("visit", n) >>

RECURSIVE traverse_all(_), traverse_all_mesh(_), traverse_all_but_leaves(_)
RECURSIVE traverse_leaves(_), traverse_leaves_mesh(_)

\* a traversal that executes the member function after the sons are done
traverse_all_PostOrder(n) ==
  Flatten([i \in 1..nsons(n) |-> traverse_all(son_pt(n, i - 1))])
  \o Visit(n)

\* Tree::traverse_all(VoidMemberFctPt)
traverse_all(n) ==
  Visit(n)
  \o Flatten([i \in 1..nsons(n) |-> traverse_all(son_pt(n, i - 1))])

\* Tree::traverse_all(VoidMeshPtArgumentMemberFctPt, Mesh*&)
traverse_all_mesh(n) ==
  Visit(n)
  \o Flatten([i \in 1..nsons(n) |-> traverse_all_mesh(son_pt(n, i - 1))])

\* a traversal that does not test for sons before it executes the function
traverse_all_but_leaves_NoTest(n) ==
  Visit(n)
  \o Flatten([i \in 1..nsons(n) |-> traverse_all_but_leaves(son_pt(n, i - 1))])

\* Tree::traverse_all_but_leaves
traverse_all_but_leaves(n) ==
  LET n_sons == nsons(n) IN
  IF n_sons > 0
  THEN Visit(n)
       \o Flatten([i \in 1..n_sons |-> traverse_all_but_leaves(son_pt(n, i - 1))])
  ELSE <<>>

\* Tree::traverse_leaves(VoidMemberFctPt)
traverse_leaves(n) ==
  LET numsons == nsons(n) IN
  IF numsons > 0
  THEN Flatten([i \in 1..numsons |-> traverse_leaves(son_pt(n, i - 1))])
  ELSE Visit(n)

\* Tree::traverse_leaves(VoidMeshPtArgumentMemberFctPt, Mesh*&)
traverse_leaves_mesh(n) ==
  LET numsons == nsons(n) IN
  IF numsons > 0
  THEN Flatten([i \in 1..numsons |-> traverse_leaves_mesh(son_pt(n, i - 1))])
  ELSE Visit(n)

\* a traversal called on node n: the heaps are read, the visits are logged
Traversal(op, n, visits) ==
  /\ Idle
  /\ n \in LiveTrees
  /\ Called(op, n, TRUE, <<>>)
  /\ log' = visits
  /\ UNCHANGED <<trees, elems, Trees_pt, status, tree_nodes>>

TraverseAll(n) == Traversal("traverse_all", n, traverse_all(n))
TraverseAllMesh(n) == Traversal("traverse_all_mesh", n, traverse_all_mesh(n))
TraverseAllButLeaves(n) ==
  Traversal("traverse_all_but_leaves", n, traverse_all_but_leaves(n))
TraverseLeaves(n) == Traversal("traverse_leaves", n, traverse_leaves(n))
TraverseLeavesMesh(n) ==
  Traversal("traverse_leaves_mesh", n, traverse_leaves_mesh(n))

\* ------------------------------------------------------------------ vectors
RECURSIVE stick_leaves_into_vector(_, _), StickLeavesSons(_, _, _)
RECURSIVE stick_all_tree_nodes_into_vector(_, _), StickAllSons(_, _, _)

\* Tree::stick_leaves_into_vector
stick_leaves_into_vector(n, v) ==
  LET numsons == nsons(n) IN
  IF numsons > 0 THEN StickLeavesSons(n, 0, v) ELSE Append(v, n)

\* its loop over the sons, from son i on
StickLeavesSons(n, i, v) ==
  IF i < nsons(n)
  THEN StickLeavesSons(n, i + 1, stick_leaves_into_vector(son_pt(n, i), v))
  ELSE v

\* Tree::stick_all_tree_nodes_into_vector
stick_all_tree_nodes_into_vector(n, v) ==
  LET pushed == Append(v, n)
      numsons == nsons(n) IN
  IF numsons > 0 THEN StickAllSons(n, 0, pushed) ELSE pushed

\* its loop over the sons, from son i on
StickAllSons(n, i, v) ==
  IF i < nsons(n)
  THEN StickAllSons(n, i + 1, stick_all_tree_nodes_into_vector(son_pt(n, i), v))
  ELSE v

\* accessors of TreeForest
ntree == Len(Trees_pt)
tree_pt(i) == Trees_pt[i + 1]

RECURSIVE ForestStickLeaves(_, _), ForestStickAll(_, _)

\* a forest version that pushes every root, refined or not
ForestStickLeaves_AlsoRoots(itree, v) ==
  IF itree < ntree
  THEN ForestStickLeaves(itree + 1,
         StickLeavesSons(tree_pt(itree), 0, Append(v, tree_pt(itree))))
  ELSE v

\* TreeForest::stick_leaves_into_vector, from tree itree on
ForestStickLeaves(itree, v) ==
  IF itree < ntree
  THEN LET numsons == nsons(tree_pt(itree)) IN
       ForestStickLeaves(itree + 1,
         IF numsons > 0 THEN StickLeavesSons(tree_pt(itree), 0, v)
                        ELSE Append(v, tree_pt(itree)))
  ELSE v

\* TreeForest::stick_all_tree_nodes_into_vector, from tree itree on
ForestStickAll(itree, v) ==
  IF itree < ntree
  THEN LET pushed == Append(v, tree_pt(itree))
           numsons == nsons(tree_pt(itree)) IN
       ForestStickAll(itree + 1,
         IF numsons > 0 THEN StickAllSons(tree_pt(itree), 0, pushed)
                        ELSE pushed)
  ELSE v

\* a stick_*_into_vector call with the caller's vector pre
Stick(op, n, pre, result) ==
  /\ Idle
  /\ Called(op, n, TRUE, pre)
  /\ tree_nodes' = result
  /\ log' = <<>>
  /\ UNCHANGED <<trees, elems, Trees_pt, status>>

StickLeaves(n, pre) ==
  /\ Idle
  /\ n \in LiveTrees
  /\ Stick("stick_leaves", n, pre, stick_leaves_into_vector(n, pre))

StickAllTreeNodes(n, pre) ==
  /\ Idle
  /\ n \in LiveTrees
  /\ Stick("stick_all", n, pre, stick_all_tree_nodes_into_vector(n, pre))

ForestStickLeavesIntoVector(pre) ==
  Stick("forest_stick_leaves", NULL, pre, ForestStickLeaves(0, pre))

ForestStickAllTreeNodesIntoVector(pre) ==
  Stick("forest_stick_all", NULL, pre, ForestStickAll(0, pre))

\* ================================================================= quadtree
\* ------------------------------------------------------- QuadTreeNames
N == 4
E == 5
S == 6
W == 7

Edges == {N, E, S, W}
Quadrants == {SW, SE, NW, NE}
Directions == Quadrants \cup Edges \cup {OMEGA}

\* the direction as a vector (x to the east, y to the north)
Vec(d) ==
  CASE d = N -> <<0, 1>>   [] d = E -> <<1, 0>>
    [] d = S -> <<0, -1>>  [] d = W -> <<-1, 0>>
    [] d = NE -> <<1, 1>>  [] d = NW -> <<-1, 1>>
    [] d = SE -> <<1, -1>> [] d = SW -> <<-1, -1>>
    [] OTHER -> <<0, 0>>

Dir(v) ==
  IF \E d \in Edges \cup Quadrants : Vec(d) = v
  THEN CHOOSE d \in Edges \cup Quadrants : Vec(d) = v
  ELSE OMEGA

\* a quarter turn of a vector, clockwise
TurnCW(v) == <<v[2], -v[1]>>

RECURSIVE Turns(_, _)
Turns(v, k) == IF k = 0 THEN v ELSE Turns(TurnCW(v), k - 1)

\* QuadTree::Reflect_edge: the opposite edge, Reflect_edge[N] = S
Reflect_edge(d) == Dir(<<-Vec(d)[1], -Vec(d)[2]>>)

\* QuadTree::Is_adjacent(edge, quadrant): the quadrant touches the edge
Is_adjacent(edge, quadrant) ==
  Vec(edge)[1] * Vec(quadrant)[1] + Vec(edge)[2] * Vec(quadrant)[2] = 1

\* QuadTree::Reflect(direction, quadrant): the mirror image of the quadrant in
\* the direction, Reflect(S, NE) = SE
Reflect(direction, quadrant) ==
  IF direction \in {N, S}
  THEN Dir(<<Vec(quadrant)[1], -Vec(quadrant)[2]>>)
  ELSE Dir(<<-Vec(quadrant)[1], Vec(quadrant)[2]>>)

\* the clockwise quarter turns that take north to NorthIs
QuarterTurns(NorthIs) ==
  CASE NorthIs = N -> 0 [] NorthIs = E -> 1 [] NorthIs = S -> 2
    [] NorthIs = W -> 3 [] OTHER -> 0

\* QuadTree::Rotate(NorthIs, direction): what direction becomes when north
\* becomes NorthIs, Rotate(E, NW) = NE
Rotate(NorthIs, direction) == Dir(Turns(Vec(direction), QuarterTurns(NorthIs)))

\* ------------------------------------------------------------ exceptions
\* OomphLibError(message, OOMPH_CURRENT_FUNCTION, OOMPH_EXCEPTION_LOCATION)
OomphLibError(message, function, location) ==
  [what |-> message, function |-> function, location |-> location]

NoError == OomphLibError("", "", "")

Throw(err) == EvArg("throw", NULL, err)

\* the exception a run of evs ends with
Thrown(evs) ==
  LET at == {i \in 1..Len(evs) : evs[i].ev = "throw"} IN
  IF at = {} THEN NoError ELSE evs[Min(at)].arg

\* ------------------------------------------------------ return values
NoResult == [kind |-> "none", value |-> NULL, node |-> NULL, edge |-> OMEGA,
             diff_level |-> 0, in_neighbouring_tree |-> FALSE]

Value(kind, v) == [NoResult EXCEPT !.kind = kind, !.value = v]

\* an outcome of a call: it returns value, throws err, or the program dies
Returns(v) == [throws |-> FALSE, aborts |-> FALSE, value |-> v, err |-> NoError]
Throws(err) == [throws |-> TRUE, aborts |-> FALSE, value |-> NULL, err |-> err]
Aborts == [throws |-> FALSE, aborts |-> TRUE, value |-> NULL, err |-> NoError]

\* ---------------------------------------------------- the mesh generator
\* The roots stand in a row, root r on the unit square between x = r - 1 and
\* x = r; the compass of root r is turned anticlockwise by rotation[r] quarter
\* turns.  The vertex nodes of the root elements are the corners of the squares.
Rotations == 0..3

\* the direction in the plane of direction d of root r
GlobalDir(r, d) == Dir(Turns(Vec(d), (4 - rotation[r]) % 4))

\* the vertex node of the element of root r at its corner (quadrant) c
vertex_node_pt(r, c) ==
  LET g == Vec(GlobalDir(r, c)) IN
  << (r - 1) + (g[1] + 1) \div 2, (g[2] + 1) \div 2 >>

VertexNodes(r) == {vertex_node_pt(r, c) : c \in Quadrants}

EdgeNodes(r, d) == {vertex_node_pt(r, c) : c \in {q \in Quadrants : Is_adjacent(d, q)}}

\* ------------------------------------------------------------- QuadTreeRoot
NoNeighbours == [d \in Edges |-> NULL]

\* North_equivalent.resize(27) and the four entries the constructor sets
NorthEquivalentInit == [d \in 0..26 |-> IF d \in Edges THEN N ELSE 0]

\* the statements of a constructor that does not look at the static data
QuadTreeRoot_NoCheck(id, object_pt_) ==
  Tree_root(id, object_pt_)
  \o << EvArg("set_root_pt", id, id) >>
  \o << EvArg("init_north_equivalent", id, NorthEquivalentInit) >>

\* QuadTreeRoot::QuadTreeRoot(object_pt): Tree(object_pt), QuadTree(object_pt),
\* TreeRoot(object_pt), then the body; when the body throws, the base classes
\* are destroyed and the storage is released
QuadTreeRoot(id, object_pt_) ==
  Tree_root(id, object_pt_)
  \o << EvArg("set_root_pt", id, id) >>
  \o (IF PARANOID /\ ~Static_data_has_been_setup
      THEN << Throw(OomphLibError("Static member data hasn't been setup yet.",
                                  "QuadTreeRoot::QuadTreeRoot",
                                  "quadtree.h:321")) >>
           \o TreeDtor(id) \o << Ev("free_tree", id) >>
      ELSE << EvArg("init_north_equivalent", id, NorthEquivalentInit) >>)

\* a default constructor that builds an empty root instead of throwing
QuadTree_NoThrow(id) ==
  << EvArg("new_tree", id,
           [mem |-> Alive, Object_pt |-> NULL, Father_pt |-> NULL,
            Son_type |-> OMEGA, Level |-> 0, Root_pt |-> NULL,
            Son_pt |-> <<>>]) >>

\* QuadTree::QuadTree(): the default constructor (empty and broken)
QuadTree(id) ==
  << Throw(OomphLibError("Don't call an empty constructor for a QuadTree object",
                         "QuadTree::QuadTree", "quadtree.h:205")) >>

\* QuadTreeForest::QuadTreeForest(): the default constructor (empty and broken)
QuadTreeForest ==
  << Throw(OomphLibError(
       "Don't call an empty constructor for a QuadTreeForest object",
       "QuadTreeForest::QuadTreeForest", "quadtree.h:415")) >>

\* North_equivalent after a run of evs
NorthEquivalentAfter(evs) ==
  [n \in Ids |->
     LET at == {i \in 1..Len(evs) :
                  evs[i].ev = "init_north_equivalent" /\ evs[i].id = n} IN
     IF at = {} THEN North_equivalent[n] ELSE evs[Min(at)].arg]

\* a north_equivalent that indexes the table with whatever it is given
north_equivalent_NoCheck(r, neighbour) ==
  IF neighbour \in DOMAIN North_equivalent[r]
  THEN {Returns(North_equivalent[r][neighbour])}
  ELSE {Returns(0), Returns(OMEGA), Aborts}

\* a north_equivalent that reads the entry of the northern neighbour
north_equivalent_NorthEntry(r, neighbour) ==
  {Returns(North_equivalent[r][N])}

\* the error of QuadTreeRoot::north_equivalent
NorthEquivalentError ==
  OomphLibError("The neighbour can only be N,S,E,W",
                "QuadTreeRoot::north_equivalent", "quadtree.h:366")

\* QuadTreeRoot::north_equivalent(neighbour): the outcomes of a call.
\* PARANOID: the message of the error reads Direct_string[neighbour], which
\* translates the enumerated directions; for another integer the read is
\* outside what the table holds.  Otherwise North_equivalent[neighbour] is
\* returned, a read outside the vector when neighbour is not in 0..26.
north_equivalent(r, neighbour) ==
  IF PARANOID /\ neighbour # S /\ neighbour # N /\ neighbour # W /\ neighbour # E
  THEN IF neighbour \in Directions
       THEN {Throws(NorthEquivalentError)}
       ELSE {Throws(NorthEquivalentError), Aborts}
  ELSE IF neighbour \in DOMAIN North_equivalent[r]
       THEN {Returns(North_equivalent[r][neighbour])}
       ELSE {Returns(0), Returns(OMEGA), Aborts}

\* the entry a caller inside the library gets
NorthEquivalentOf(r, neighbour) ==
  LET got == {o \in north_equivalent(r, neighbour) : ~o.throws /\ ~o.aborts} IN
  IF got = {} THEN OMEGA ELSE (CHOOSE o \in got : TRUE).value

\* a direction_of_neighbour whose last test returns S
direction_of_neighbour_WestIsSouth(neighbours, quadtree_root_pt) ==
  IF neighbours[N] = quadtree_root_pt THEN N
  ELSE IF neighbours[E] = quadtree_root_pt THEN E
  ELSE IF neighbours[S] = quadtree_root_pt THEN S
  ELSE IF neighbours[W] = quadtree_root_pt THEN S
  ELSE OMEGA

\* QuadTreeRoot::direction_of_neighbour(quadtree_root_pt) of the root whose
\* Neighbour_pt is neighbours
direction_of_neighbour(neighbours, quadtree_root_pt) ==
  IF neighbours[N] = quadtree_root_pt THEN N
  ELSE IF neighbours[E] = quadtree_root_pt THEN E
  ELSE IF neighbours[S] = quadtree_root_pt THEN S
  ELSE IF neighbours[W] = quadtree_root_pt THEN W
  ELSE OMEGA

\* ----------------------------------------------------------- QuadTreeForest
\* QuadTreeForest::find_neighbours: the neighbour of a root in a direction is
\* the other root whose element holds both vertex nodes of that edge
find_neighbours(trees_pt) ==
  [n \in Ids |->
     IF n \in Range(trees_pt)
     THEN [d \in Edges |->
             LET found == {m \in Range(trees_pt) \ {n} :
                             EdgeNodes(n, d) \subseteq VertexNodes(m)} IN
             IF found = {} THEN NULL ELSE CHOOSE m \in found : TRUE]
     ELSE NoNeighbours]

\* QuadTreeForest::construct_north_equivalents: the neighbour in direction d
\* sees this root in direction dir, so this root's d is the reflection of dir
\* there, and its north is what the same turn makes of N
construct_north_equivalents(trees_pt, neighbour_pt, before) ==
  [n \in Ids |->
     IF n \in Range(trees_pt)
     THEN [d \in 0..26 |->
             IF d \in Edges /\ neighbour_pt[n][d] # NULL
             THEN LET dir == direction_of_neighbour(
                               neighbour_pt[neighbour_pt[n][d]], n)
                      fits == {x \in Edges : Rotate(x, d) = Reflect_edge(dir)} IN
                  IF fits = {} THEN before[n][d]
                  ELSE CHOOSE x \in fits : TRUE
             ELSE before[n][d]]
     ELSE before[n]]

\* ------------------------------------------------- gteq_edge_neighbour
neighbour_pt(root, direction) == Neighbour_pt[root][direction]

Found(n, diff_level, in_neighbouring_tree) ==
  [node |-> n, diff_level |-> diff_level,
   in_neighbouring_tree |-> in_neighbouring_tree]

RECURSIVE gteq_edge_neighbour_aux(_, _, _, _)
\* the auxiliary routine: climb to the father while this quadrant touches the
\* father's edge in the direction, hop to the neighbouring root at the top,
\* then descend to the reflected (and rotated) son, never below max_level
gteq_edge_neighbour_aux(n, direction, max_level, orig_root_pt) ==
  IF trees[n].Father_pt # NULL
  THEN LET father == trees[n].Father_pt
           son_type == trees[n].Son_type
           next == IF Is_adjacent(direction, son_type)
                   THEN gteq_edge_neighbour_aux(father, direction, max_level,
                                                orig_root_pt)
                   ELSE Found(father, 0, FALSE)
           up == next.diff_level - 1 IN
       IF next.node = NULL
       THEN Found(NULL, up, next.in_neighbouring_tree)
       ELSE IF nsons(next.node) = 0 \/ trees[next.node].Level > max_level - 1
       THEN Found(next.node, up, next.in_neighbouring_tree)
       ELSE LET reflected == Reflect(direction, son_type)
                son_quadrant ==
                  IF trees[next.node].Root_pt # orig_root_pt
                  THEN Rotate(NorthEquivalentOf(orig_root_pt, direction),
                              reflected)
                  ELSE reflected IN
            Found(son_pt(next.node, son_quadrant), up + 1,
                  next.in_neighbouring_tree)
  ELSE IF neighbour_pt(trees[n].Root_pt, direction) # NULL
       THEN Found(neighbour_pt(trees[n].Root_pt, direction), 0, TRUE)
       ELSE Found(NULL, 0, FALSE)

\* QuadTree::gteq_edge_neighbour(direction, ..., edge, diff_level,
\* in_neighbouring_tree)
gteq_edge_neighbour(n, direction) ==
  LET orig_root_pt == trees[n].Root_pt
      found == gteq_edge_neighbour_aux(n, direction, trees[n].Level,
                                       orig_root_pt)
      reflected == Reflect_edge(direction) IN
  [kind |-> "gteq_edge_neighbour", value |-> NULL, node |-> found.node,
   edge |-> IF found.node = NULL THEN OMEGA
            ELSE IF found.in_neighbouring_tree
            THEN Rotate(NorthEquivalentOf(orig_root_pt, direction), reflected)
            ELSE reflected,
   diff_level |-> found.diff_level,
   in_neighbouring_tree |-> found.in_neighbouring_tree]

\* ------------------------------------------------------ construction steps
Roots == 1..NumTrees

\* the mesh generator is at work: no forest yet
Constructing == status = "constructing" /\ call = NoCall

\* the operation of the last step, for the steps that are not calls on a forest
Did(op, n) == [NoResult EXCEPT !.kind = op, !.node = n]

\* a step of the construction that executes evs; an exception ends the program
Construct(op, n, evs) ==
  LET h == ApplyAll(Heap, evs) IN
  /\ trees' = h.trees
  /\ elems' = h.elems
  /\ error' = Thrown(evs)
  /\ status' = IF Thrown(evs) = NoError THEN status ELSE "failed"
  /\ North_equivalent' = NorthEquivalentAfter(evs)
  /\ returned' = Did(op, n)
  /\ UNCHANGED <<Trees_pt, call, last_merged, log, tree_nodes, PARANOID,
                 Static_data_has_been_setup, rotation, Neighbour_pt, mvars>>

\* QuadTree::setup_static_data
setup_static_data ==
  /\ Constructing
  /\ Static_data_has_been_setup' = TRUE
  /\ error' = NoError
  /\ returned' = Did("setup_static_data", NULL)
  /\ UNCHANGED <<vars, PARANOID, rotation, Neighbour_pt, North_equivalent,
                 mvars>>

\* new QuadTreeRoot(element of root r)
NewQuadTreeRoot(r) ==
  /\ Constructing
  /\ trees[r].mem = Unborn
  /\ \A q \in 1..(r - 1) : trees[q].mem = Alive
  /\ Construct("QuadTreeRoot", r, QuadTreeRoot(r, r))

\* the tree a default constructor would build
NextUnborn == Min({n \in Ids : trees[n].mem = Unborn})

\* a class derived from QuadTree calls the default constructor
NewQuadTree ==
  /\ Constructing \/ Idle
  /\ \E n \in Ids : trees[n].mem = Unborn
  /\ Construct("QuadTree", NextUnborn, QuadTree(NextUnborn))

\* new QuadTreeForest()
NewQuadTreeForestEmpty ==
  /\ Constructing \/ Idle
  /\ Construct("QuadTreeForest", NULL, QuadTreeForest)

\* the roots before the forest looks at them
FreshTables == [n \in Ids |-> IF n \in Roots THEN NorthEquivalentInit ELSE <<>>]

\* new QuadTreeForest(trees_pt): find_neighbours, construct_north_equivalents;
\* they read the static tables, which are empty vectors before
\* setup_static_data
NewQuadTreeForest ==
  /\ Constructing
  /\ \A r \in Roots : trees[r].mem = Alive
  /\ LET trees_pt == [r \in Roots |-> r]
         found == find_neighbours(trees_pt) IN
     IF Static_data_has_been_setup
     THEN /\ Trees_pt' = trees_pt
          /\ Neighbour_pt' = found
          /\ North_equivalent' =
               construct_north_equivalents(trees_pt, found, North_equivalent)
          /\ status' = "live"
     ELSE /\ status' = "aborted"
          /\ UNCHANGED <<Trees_pt, Neighbour_pt, North_equivalent>>
  /\ error' = NoError
  /\ returned' = Did("QuadTreeForest(trees_pt)", NULL)
  /\ UNCHANGED <<trees, elems, call, last_merged, log, tree_nodes, PARANOID,
                 Static_data_has_been_setup, rotation, mvars>>

\* ------------------------------------------------------ calls on the forest
\* the arguments handed to north_equivalent
NeighbourArgs == Directions \cup {8, 27, -1}

\* a call that reads the forest and ends with outcome o
Query(op, n, args, kind, o) ==
  /\ call' = Call(op, n, ~o.throws /\ ~o.aborts, args)
  /\ UNCHANGED last_merged
  /\ error' = o.err
  /\ returned' = IF o.throws \/ o.aborts THEN NoResult ELSE Value(kind, o.value)
  /\ status' = IF o.aborts THEN "aborted"
               ELSE IF o.throws THEN "failed" ELSE status
  /\ UNCHANGED <<trees, elems, Trees_pt, log, tree_nodes, PARANOID,
                 Static_data_has_been_setup, rotation, Neighbour_pt,
                 North_equivalent, mvars>>

NorthEquivalentCall(r, neighbour) ==
  /\ Idle
  /\ r \in Range(Trees_pt)
  /\ \E o \in north_equivalent(r, neighbour) :
       Query("north_equivalent", r, <<neighbour>>, "north_equivalent", o)

DirectionOfNeighbourCall(r, quadtree_root_pt) ==
  /\ Idle
  /\ r \in Range(Trees_pt)
  /\ Query("direction_of_neighbour", r, <<quadtree_root_pt>>,
           "direction_of_neighbour",
           Returns(direction_of_neighbour(Neighbour_pt[r], quadtree_root_pt)))

GteqEdgeNeighbourCall(n, direction) ==
  /\ Idle
  /\ n \in LiveTrees
  /\ LET found == gteq_edge_neighbour(n, direction) IN
     /\ call' = Call("gteq_edge_neighbour", n, found.node # NULL, <<direction>>)
     /\ returned' = found
  /\ UNCHANGED last_merged
  /\ error' = NoError
  /\ UNCHANGED <<trees, elems, Trees_pt, status, log, tree_nodes, PARANOID,
                 Static_data_has_been_setup, rotation, Neighbour_pt,
                 North_equivalent, mvars>>

\* the call returns to the adaptation loop, which drops the call's results
Return ==
  /\ status = "live"
  /\ call # NoCall
  /\ call' = NoCall
  /\ log' = <<>>
  /\ tree_nodes' = <<>>
  /\ last_merged' = IF call.op = "merge" /\ call.taken THEN call.node ELSE NULL
  /\ error' = NoError
  /\ returned' = NoResult
  /\ UNCHANGED <<trees, elems, Trees_pt, status>>
  /\ UNCHANGED <<PARANOID, Static_data_has_been_setup, rotation, Neighbour_pt,
                 North_equivalent, mvars>>

\* --------------------------------------------------------------------- mesh
\* The elements are four-node quads with one value at each node.  Root r
\* covers the square of side RootSize whose south-west corner is
\* <<(r - 1) * RootSize, 0>>; the sons quarter the square of their father.  A
\* node is named by its position.
RootSize == 2 ^ MaxSplits

MaxPinned == 1   \* values the boundary conditions pin at the same time

\* the values of Data::Eqn_number that are not equation numbers
Is_pinned == -1
Is_constrained == -2
Is_unclassified == -10

\* a node as its constructor leaves it
NewNode == [pinned |-> FALSE, hanging |-> FALSE, master |-> {},
            obsolete |-> FALSE, eqn_number |-> Is_unclassified]

RECURSIVE Box(_)
\* the square covered by the element of tree node n
Box(n) ==
  IF trees[n].Father_pt = NULL
  THEN [x |-> (trees[n].Root_pt - 1) * RootSize, y |-> 0, h |-> RootSize]
  ELSE LET b == Box(trees[n].Father_pt)
           half == b.h \div 2
           q == Vec(trees[n].Son_type) IN
       [x |-> b.x + ((q[1] + 1) \div 2) * half,
        y |-> b.y + ((q[2] + 1) \div 2) * half,
        h |-> half]

\* the node of the element of n at its corner l
node_pt(n, l) ==
  LET b == Box(n)
      q == Vec(l) IN
  << b.x + ((q[1] + 1) \div 2) * b.h, b.y + ((q[2] + 1) \div 2) * b.h >>

\* the nodes of the element of n in local order
ElementNodes(n) == [l \in 1..NSons |-> node_pt(n, l - 1)]

\* its nodes on the edge d
NodesOnEdge(n, d) == {node_pt(n, q) : q \in {c \in Quadrants : Is_adjacent(d, c)}}

\* Mesh::Element_pt: the elements of the leaves in the order of
\* TreeForest::stick_leaves_into_vector
MeshElements == ForestStickLeaves(0, <<>>)

\* the node pointers of the elements of the mesh, element by element
ElementNodePositions ==
  Flatten([i \in 1..Len(MeshElements) |-> ElementNodes(MeshElements[i])])

RequiredNodes == Range(ElementNodePositions)

\* the first occurrences in v, in the order of v
FirstOccurrences(v) ==
  SelectSeq([i \in 1..Len(v) |-> [at |-> i, what |-> v[i]]],
            LAMBDA x : \A j \in 1..(x.at - 1) : v[j] # x.what)

\* the sons' elements are built: a node that no neighbour has yet is created
build(np) ==
  [p \in DOMAIN np \cup RequiredNodes |-> IF p \in DOMAIN np THEN np[p] ELSE NewNode]

\* an unbuild that destroys the nodes of the element at once
unbuild_DeletesNodes(np, e) ==
  [p \in DOMAIN np \ Range(ElementNodes(elems[e].Tree_pt)) |-> np[p]]

\* RefineableElement::unbuild of element e: its nodes are marked obsolete
unbuild(np, e) ==
  [p \in DOMAIN np |->
     IF p \in Range(ElementNodes(elems[e].Tree_pt))
     THEN [np[p] EXCEPT !.obsolete = TRUE]
     ELSE np[p]]

RECURSIVE UnbuildAll(_, _)
\* the calls of unbuild among the events evs of a merge
UnbuildAll(np, evs) ==
  IF evs = <<>> THEN np
  ELSE UnbuildAll(IF Head(evs).ev = "unbuild" THEN unbuild(np, Head(evs).id)
                  ELSE np,
                  Tail(evs))

\* the nodes of the elements of the mesh are required and start non-hanging
set_nonhanging(np) ==
  LET required == RequiredNodes IN
  [p \in DOMAIN np |->
     IF p \in required
     THEN [np[p] EXCEPT !.obsolete = FALSE, !.hanging = FALSE, !.master = {}]
     ELSE np[p]]

\* the edges of the elements of the mesh that lie on a larger leaf: the nodes
\* of the edge that are no nodes of the neighbour, and the neighbour's nodes
\* on its side of the edge
HangingEdges ==
  {[nodes |-> NodesOnEdge(x[1], x[2])
                \ Range(ElementNodes(gteq_edge_neighbour(x[1], x[2]).node)),
    master |-> NodesOnEdge(gteq_edge_neighbour(x[1], x[2]).node,
                           gteq_edge_neighbour(x[1], x[2]).edge)] :
     x \in {y \in Range(MeshElements) \X Edges :
              /\ gteq_edge_neighbour(y[1], y[2]).node # NULL
              /\ gteq_edge_neighbour(y[1], y[2]).diff_level < 0}}

\* the hanging-node setup of every element of the mesh: a node of an edge
\* that lies on a larger leaf hangs on the nodes of that leaf's edge
setup_hanging_nodes(np) ==
  LET hanging == HangingEdges IN
  [p \in DOMAIN np |->
     LET master == UNION {h.master : h \in {g \in hanging : p \in g.nodes}} IN
     IF master # {}
     THEN [np[p] EXCEPT !.hanging = TRUE, !.master = master]
     ELSE np[p]]

\* a mesh that never reclaims a node
prune_dead_nodes_KeepsAll(np) == np

\* Mesh::prune_dead_nodes
prune_dead_nodes(np) == [p \in {q \in DOMAIN np : ~np[q].obsolete} |-> np[p]]

\* a change of the mesh makes the equation numbers of the last pass stale;
\* no operation reads a stale number and the model does not keep them
Stale(np) == [p \in DOMAIN np |-> [np[p] EXCEPT !.eqn_number = Is_unclassified]]

\* what the mesh does after the trees were split or merged by the events evs
adapt_mesh(np, evs) ==
  prune_dead_nodes(setup_hanging_nodes(set_nonhanging(UnbuildAll(build(np), evs))))

\* the mesh follows a split or a merge
AdaptMesh ==
  /\ status = "live"
  /\ call.op \in {"split", "merge"}
  /\ call.taken
  /\ Node_pt' = Stale(adapt_mesh(Node_pt, log))
  /\ numbered' = FALSE
  /\ call' = Call("adapt_mesh", call.node, TRUE,
                  <<call.op, Len(SelectSeq(log, LAMBDA e : e.ev = "free_tree"))>>)
  /\ log' = <<>>
  /\ UNCHANGED <<trees, elems, Trees_pt, status, last_merged, tree_nodes,
                 global_number, qvars>>

\* every other call returns to the driver, which drops the call's results
MeshReturn ==
  /\ status = "live"
  /\ call # NoCall
  /\ ~(call.op \in {"split", "merge"} /\ call.taken)
  /\ call' = NoCall
  /\ log' = <<>>
  /\ tree_nodes' = <<>>
  /\ last_merged' = IF call.op = "adapt_mesh" /\ call.pre[1] = "merge"
                    THEN call.node ELSE NULL
  /\ error' = NoError
  /\ returned' = NoResult
  /\ UNCHANGED <<trees, elems, Trees_pt, status, PARANOID,
                 Static_data_has_been_setup, rotation, Neighbour_pt,
                 North_equivalent, mvars>>

\* a call on the mesh that changes the nodes to np
MeshCall(op, p, np) ==
  /\ Node_pt' = Stale(np)
  /\ numbered' = FALSE
  /\ call' = Call(op, NULL, TRUE, <<p>>)
  /\ UNCHANGED <<trees, elems, Trees_pt, status, last_merged, log, tree_nodes,
                 global_number, qvars>>

\* the nodes whose values the driver pins and unpins, and where an element
\* can hand over a HangInfo without masters: those on the line between the
\* first two roots
Pinnable == {p \in DOMAIN Node_pt : p[1] = RootSize}

\* Data::pin of the value of node p
pin(p) ==
  /\ Idle
  /\ p \in Pinnable
  /\ ~Node_pt[p].pinned
  /\ Cardinality({q \in DOMAIN Node_pt : Node_pt[q].pinned}) < MaxPinned
  /\ MeshCall("pin", p, [Node_pt EXCEPT ![p].pinned = TRUE])

\* Data::unpin of the value of node p
unpin(p) ==
  /\ Idle
  /\ p \in Pinnable
  /\ Node_pt[p].pinned
  /\ MeshCall("unpin", p, [Node_pt EXCEPT ![p].pinned = FALSE])

\* Node::set_hanging_pt with a HangInfo that holds no master, as an element
\* whose further_setup_hanging_nodes found none hands it over
set_hanging_pt(p) ==
  /\ Idle
  /\ p \in Pinnable
  /\ p \in RequiredNodes
  /\ ~Node_pt[p].hanging
  /\ \A q \in DOMAIN Node_pt : Node_pt[q].hanging => Node_pt[q].master # {}
  /\ MeshCall("set_hanging_pt", p,
              [Node_pt EXCEPT ![p].hanging = TRUE, ![p].master = {}])

\* ------------------------------------------------------ equation numbering
\* a classification that does not look for violated invariants
Classify_NoCheck(nd) ==
  IF nd.pinned THEN "pinned" ELSE IF nd.hanging THEN "hanging" ELSE "free"

\* the class of a value, or the invariant it violates
Classify(nd) ==
  IF nd.pinned /\ nd.hanging THEN "pinned and hanging"
  ELSE IF nd.hanging /\ nd.master = {} THEN "hanging without master"
  ELSE IF nd.pinned THEN "pinned"
  ELSE IF nd.hanging THEN "hanging"
  ELSE "free"

Classes == {"pinned", "hanging", "free"}

NumberingError(class) ==
  OomphLibError("Value is " \o class, "Mesh::assign_global_eqn_numbers",
                "mesh.cc")

\* the values in the order of the pass: element by element in the order of
\* Mesh::Element_pt, the nodes of an element in local order, each node once
NumberingOrder ==
  LET first == FirstOccurrences(ElementNodePositions) IN
  [i \in 1..Len(first) |-> first[i].what]

RECURSIVE NumberFrom(_, _, _, _, _)
\* the loop of the pass from value i of order on
NumberFrom(order, i, np, number, evs) ==
  IF i > Len(order) THEN [np |-> np, number |-> number, evs |-> evs]
  ELSE IF order[i] \notin DOMAIN np
  THEN [np |-> np, number |-> number, evs |-> Append(evs, Ev("abort", NULL))]
  ELSE LET p == order[i]
           class == Classify(np[p]) IN
       IF class \notin Classes
       THEN [np |-> np, number |-> number,
             evs |-> Append(evs, Throw(NumberingError(class)))]
       ELSE NumberFrom(order, i + 1,
              [np EXCEPT ![p].eqn_number =
                 IF class = "free" THEN number
                 ELSE IF class = "pinned" THEN Is_pinned ELSE Is_constrained],
              IF class = "free" THEN number + 1 ELSE number,
              Append(evs, EvArg(class, NULL, p)))

\* a pass that goes on counting where the last pass stopped
assign_eqn_numbers_NoReset(np, counter) ==
  NumberFrom(NumberingOrder, 1, np, counter, <<>>)

\* the pass: the counter is reset, then every value is classified
assign_eqn_numbers(np, counter) ==
  NumberFrom(NumberingOrder, 1, np, 0, <<>>)

AssignEqnNumbers ==
  /\ Idle
  /\ LET pass == assign_eqn_numbers(Node_pt, global_number)
         last == pass.evs[Len(pass.evs)]
         done == pass.evs = <<>> \/ last.ev \in Classes IN
     /\ Node_pt' = pass.np
     /\ global_number' = pass.number
     /\ log' = pass.evs
     /\ error' = Thrown(pass.evs)
     /\ status' = IF done THEN status
                  ELSE IF last.ev = "throw" THEN "failed" ELSE "aborted"
     /\ numbered' = done
     /\ call' = Call("assign_eqn_numbers", NULL, done, <<numbered>>)
  /\ returned' = NoResult
  /\ UNCHANGED <<trees, elems, Trees_pt, last_merged, tree_nodes, PARANOID,
                 Static_data_has_been_setup, rotation, Neighbour_pt,
                 North_equivalent>>

\* ------------------------------- traverse_all with merge_sons_if_required
\* The traversal is executed one call of the member function at a time.  The
\* stack of the recursion is kept in call.pre: a frame holds the node, the
\* local variable numsons and the loop counter i.
Frame(n, numsons, i) == [node |-> n, numsons |-> numsons, i |-> i]

\* a traversal that reads the number of sons before it calls the function
traverse_all_numsons_ReadFirst(n, before, after) == Len(before.trees[n].Son_pt)

\* unsigned numsons = Son_pt.size(), the statement after the call of the
\* member function: before and after are the heaps around that call
traverse_all_numsons(n, before, after) == Len(after.trees[n].Son_pt)

\* Son_pt[i] of node n as the loop reads it; past the end of the vector the
\* storage still holds the pointer to the son that was there
SonRead(n, i) ==
  IF i < nsons(n) THEN son_pt(n, i)
  ELSE LET was == {d \in Ids : /\ trees[d].mem # Unborn
                               /\ trees[d].Father_pt = n
                               /\ trees[d].Son_type = i} IN
       IF was = {} THEN NULL ELSE CHOOSE d \in was : \A x \in was : x <= d

\* traverse_all(&Tree::merge_sons_if_required, mesh_pt) arrives at node s
\* with the frames stack below it: the member function is called on s, then
\* numsons is read.  A call on an object that has been destroyed ends the
\* program.
TraverseCall(start, s, stack, sofar) ==
  LET evs == MergeEvents(s)
      dd == DoubleDeletes(evs)
      h == ApplyAll(Heap, evs) IN
  \/ /\ s \in LiveTrees
     /\ trees' = h.trees
     /\ elems' = h.elems
     /\ log' = sofar \o Visit(s) \o evs
     /\ status' = "live"
     /\ call' = Call("traverse_all_merge", start, TRUE,
                     Append(stack, Frame(s, traverse_all_numsons(s, Heap, h), 0)))
  \/ /\ s \in LiveTrees
     /\ dd # {}
     /\ trees' = ApplyAll(Heap, SubSeq(evs, 1, Min(dd))).trees
     /\ elems' = ApplyAll(Heap, SubSeq(evs, 1, Min(dd))).elems
     /\ log' = sofar \o Visit(s) \o SubSeq(evs, 1, Min(dd))
     /\ status' = "aborted"
     /\ call' = Call("traverse_all_merge", start, TRUE, stack)
  \/ /\ s \notin LiveTrees
     /\ log' = sofar \o Visit(s)
     /\ status' = "aborted"
     /\ call' = Call("traverse_all_merge", start, TRUE, stack)
     /\ UNCHANGED <<trees, elems>>

\* the mesh calls traverse_all(&Tree::merge_sons_if_required, mesh_pt) on n
TraverseAllMerge(n) ==
  /\ Idle
  /\ n \in LiveTrees
  /\ TraverseCall(n, n, <<>>, <<>>)
  /\ UNCHANGED <<Trees_pt, tree_nodes, last_merged, qvars, mvars>>

\* one turn of the loop over the sons in the innermost call of traverse_all,
\* or its return when the loop is done
TraverseAllMergeStep ==
  /\ status = "live"
  /\ call.op = "traverse_all_merge"
  /\ call.pre # <<>>
  /\ LET stack == call.pre
         top == stack[Len(stack)]
         below == SubSeq(stack, 1, Len(stack) - 1) IN
     IF top.i < top.numsons
     THEN TraverseCall(call.node, SonRead(top.node, top.i),
                       Append(below, Frame(top.node, top.numsons, top.i + 1)),
                       log)
     ELSE /\ call' = [call EXCEPT !.pre = below]
          /\ UNCHANGED <<trees, elems, log, status>>
  /\ UNCHANGED <<Trees_pt, tree_nodes, last_merged, qvars, mvars>>

\* a call returns; that of traverse_all when its outermost call is done
TraverseAllMergeReturn ==
  /\ call.op = "traverse_all_merge" => call.pre = <<>>
  /\ Return

\* ------------------------------------------ forest of Crouzeix-Raviart elements
MaxPressure == 1   \* largest central pressure the driver starts a root with
MaxSolved   == 1   \* elements whose central pressure a solve has set

\* pressures are kept as multiples of the smallest pressure that occurs, so
\* that the halves and quarters the elements take are whole numbers
PressureUnit == RootSize * RootSize

\* the central pressures and the slopes of a root element at the start
Pressures == {k * PressureUnit : k \in 0..MaxPressure}
Slopes == {0, 2 * RootSize * PressureUnit}

\* the central pressure a solve leaves in an element
SolvedPressure == 4 * PressureUnit

\* a solve of the problem changes the central pressure of a leaf element
\* (of a south-west son: the other leaves keep the pressure they have)
Solve(n) ==
  /\ Idle
  /\ n \in LiveTrees
  /\ is_leaf(n)
  /\ trees[n].Son_type = SW
  /\ elems[object_pt(n)].internal # <<>>
  /\ elems[object_pt(n)].internal[1] # SolvedPressure
  /\ Cardinality({e \in Ids : /\ elems[e].internal # <<>>
                              /\ elems[e].internal[1] = SolvedPressure})
       < MaxSolved
  /\ Run("solve", n, TRUE, << EvArg("set_value", object_pt(n), SolvedPressure) >>)
  /\ UNCHANGED <<Trees_pt, status, tree_nodes>>

\* rebuild_from_sons of a Crouzeix-Raviart element dereferences son_pt(0..3):
\* on a node without sons it reads past the end of the empty vector Son_pt
ReadsMissingSons(n) ==
  /\ elems[object_pt(n)].Sons_to_be_unrefined
  /\ elems[object_pt(n)].internal # <<>>
  /\ nsons(n) = 0

\* what value 0 of the father's internal data can hold after such a read
Garbage == {-PressureUnit}

MaxGarbage == 1   \* elements that hold a value read from a missing son

\* Tree::merge_sons_if_required in a forest of Crouzeix-Raviart elements: the
\* read of a son that does not exist ends the program or yields any values
MergeCrouzeixRaviart(n) ==
  \/ /\ n \in LiveTrees
     /\ elems[object_pt(n)].Sons_to_be_unrefined
     /\ ~ReadsMissingSons(n)
     /\ merge_sons_if_required(n)
  \/ /\ Idle
     /\ n \in LiveTrees
     /\ ReadsMissingSons(n)
     /\ \/ /\ Run("merge", n, TRUE,
                    << EvArg("rebuild_from_sons", object_pt(n), n) >>)
           /\ status' = "aborted"
        \/ /\ Cardinality({e \in Ids : /\ elems[e].internal # <<>>
                                        /\ elems[e].internal[1] \in Garbage})
                < MaxGarbage
           /\ \E g \in Garbage :
                Run("merge", n, TRUE,
                    << EvArg("rebuild_from_sons", object_pt(n), n),
                       EvArg("set_value", object_pt(n), g) >>
                    \o Tail(MergeEvents(n)))
           /\ status' = "live"
     /\ UNCHANGED <<Trees_pt, tree_nodes>>

\* ----------------------------------------------------------- specifications
allvars == <<vars, qvars, mvars>>

\* the forest the mesh generator hands over: a checked build, the static data
\* set up, the roots in a row without relative rotation
Constructed ==
  /\ PARANOID = TRUE
  /\ Static_data_has_been_setup = TRUE
  /\ rotation = [r \in Roots |-> 0]
  /\ Neighbour_pt = find_neighbours(Trees_pt)
  /\ North_equivalent =
       construct_north_equivalents(Trees_pt, Neighbour_pt, FreshTables)
  /\ error = NoError
  /\ returned = NoResult

Init ==
  /\ trees = InitHeap.trees
  /\ elems = InitHeap.elems
  /\ Trees_pt = [r \in 1..NumTrees |-> r]
  /\ status = "live"
  /\ call = NoCall
  /\ last_merged = NULL
  /\ log = <<>>
  /\ tree_nodes = <<>>
  /\ Constructed
  /\ Node_pt = [p \in UNION {Range(ElementNodes(r)) : r \in Roots} |-> NewNode]
  /\ global_number = 0
  /\ numbered = FALSE

Next ==
  \/ Return
  \/ \E n \in Ids, r \in BOOLEAN : split_if_required(n, r)
  \/ \E n \in Ids : select_sons_for_unrefinement(n)
  \/ \E n \in Ids : merge_sons_if_required(n)
  \/ DeleteForest
  \/ \E n \in Ids : TraverseAll(n)
  \/ \E n \in Ids : TraverseAllMesh(n)
  \/ \E n \in Ids : TraverseAllButLeaves(n)
  \/ \E n \in Ids : TraverseLeaves(n)
  \/ \E n \in Ids : TraverseLeavesMesh(n)
  \/ \E n \in Ids, pre \in Prefixes : StickLeaves(n, pre)
  \/ \E n \in Ids, pre \in Prefixes : StickAllTreeNodes(n, pre)
  \/ \E pre \in Prefixes : ForestStickLeavesIntoVector(pre)
  \/ \E pre \in Prefixes : ForestStickAllTreeNodesIntoVector(pre)

Spec == Init /\ [][Next]_allvars

\* the construction of a forest and the neighbour searches in it
InitQuad ==
  /\ trees = [n \in Ids |-> NoTree]
  /\ elems = ApplyAll([trees |-> [n \in Ids |-> NoTree],
                       elems |-> [e \in Ids |-> NoElem]],
                      [r \in Roots |-> Ev("new_element", r)]).elems
  /\ Trees_pt = <<>>
  /\ status = "constructing"
  /\ call = NoCall
  /\ last_merged = NULL
  /\ log = <<>>
  /\ tree_nodes = <<>>
  /\ PARANOID \in BOOLEAN
  /\ Static_data_has_been_setup = FALSE
  /\ rotation \in [Roots -> Rotations]
  /\ Neighbour_pt = [n \in Ids |-> NoNeighbours]
  /\ North_equivalent = [n \in Ids |-> <<>>]
  /\ error = NoError
  /\ returned = NoResult
  /\ Node_pt = <<>>
  /\ global_number = 0
  /\ numbered = FALSE

NextQuad ==
  \/ setup_static_data
  \/ \E r \in Roots : NewQuadTreeRoot(r)
  \/ NewQuadTree
  \/ NewQuadTreeForestEmpty
  \/ NewQuadTreeForest
  \/ \E n \in Ids, r \in BOOLEAN : split_if_required(n, r)
  \/ \E r \in Ids, neighbour \in NeighbourArgs : NorthEquivalentCall(r, neighbour)
  \/ \E r \in Ids, q \in Ids \cup {NULL} : DirectionOfNeighbourCall(r, q)
  \/ \E n \in Ids, direction \in Edges : GteqEdgeNeighbourCall(n, direction)
  \/ Return

SpecQuad == InitQuad /\ [][NextQuad]_allvars

\* a forest of Crouzeix-Raviart elements: the roots start with the same
\* linear pressure
InitPressure ==
  /\ trees = InitHeap.trees
  /\ \E P \in Pressures \X Slopes \X Slopes :
       elems = [e \in Ids |->
                  IF e \in Roots
                  THEN [InitHeap.elems[e] EXCEPT !.internal = P]
                  ELSE InitHeap.elems[e]]
  /\ Trees_pt = [r \in 1..NumTrees |-> r]
  /\ status = "live"
  /\ call = NoCall
  /\ last_merged = NULL
  /\ log = <<>>
  /\ tree_nodes = <<>>
  /\ Constructed
  /\ Node_pt = <<>>
  /\ global_number = 0
  /\ numbered = FALSE

NextPressure ==
  \/ \E n \in Ids : split_if_required(n, TRUE)
  \/ \E n \in Ids : select_sons_for_unrefinement(n)
  \/ \E n \in Ids : MergeCrouzeixRaviart(n)
  \/ \E n \in Ids : Solve(n)
  \/ Return

SpecPressure == InitPressure /\ [][NextPressure]_allvars

\* ----------------------------------------- forest of Taylor-Hood elements
\* A RefineablePolarTaylorHoodElement is a nine-node quad with a pressure
\* value at every node.  Its nodes are named by their position in units of
\* half a length of the four-node mesh, so that the nodes in the middle of
\* the smallest elements have integer positions.  In this forest Node_pt
\* holds the pressure values of these nodes.
nnode == 9
npres_pnst == 4

\* the pressure nodes are the corner nodes, SW, SE, NW, NE
Pconv == <<0, 2, 6, 8>>

\* node j of the element of tree node n, j = j_x + 3 j_y
TaylorHood_node_pt(n, j) ==
  LET b == Box(n) IN << 2 * b.x + (j % 3) * b.h, 2 * b.y + (j \div 3) * b.h >>

TaylorHoodNodes(n) == {TaylorHood_node_pt(n, j) : j \in 0..(nnode - 1)}

\* Node* pressure_node_pt(n_p): node_pt(Pconv[n_p])
pressure_node_pt(n, n_p) == TaylorHood_node_pt(n, Pconv[n_p + 1])

PressureNodes(n) == {pressure_node_pt(n, l) : l \in 0..(npres_pnst - 1)}

\* the nodes of the element of n on its edge d
TaylorHoodNodesOnEdge(n, d) ==
  LET b == Box(n) IN
  {p \in TaylorHoodNodes(n) :
     CASE d = S -> p[2] = 2 * b.y
       [] d = N -> p[2] = 2 * (b.y + b.h)
       [] d = W -> p[1] = 2 * b.x
       [] d = E -> p[1] = 2 * (b.x + b.h)}

\* a Taylor-Hood element has no internal data, a Crouzeix-Raviart element
\* keeps its pressure there
IsTaylorHood(n) == elems[object_pt(n)].internal = <<>>

\* a node of these elements as its constructor leaves it: hanging and master
\* are the hanging scheme of the pressure, hanging_pt(p_index), and
\* position_hanging and position_master that of the position and of the
\* velocities, hanging_pt()
NewTaylorHoodNode ==
  [pinned |-> FALSE, hanging |-> FALSE, master |-> {}, obsolete |-> FALSE,
   eqn_number |-> Is_unclassified, position_hanging |-> FALSE,
   position_master |-> {}]

\* the edges of the leaves whose neighbour across the edge is a larger
\* leaf: the nodes of the edge that are no nodes of the neighbour, and the
\* neighbour's nodes on its side of the edge
HangingPositionEdges ==
  {[nodes |-> TaylorHoodNodesOnEdge(x[1], x[2])
                \ TaylorHoodNodes(gteq_edge_neighbour(x[1], x[2]).node),
    master |-> TaylorHoodNodesOnEdge(gteq_edge_neighbour(x[1], x[2]).node,
                                     gteq_edge_neighbour(x[1], x[2]).edge)] :
     x \in {y \in Range(MeshElements) \X Edges :
              /\ gteq_edge_neighbour(y[1], y[2]).node # NULL
              /\ gteq_edge_neighbour(y[1], y[2]).diff_level < 0}}

\* the masters the edges in hanging give to the position p
MastersFrom(hanging, p) ==
  UNION {h.master : h \in {g \in hanging : p \in g.nodes}}

RECURSIVE complete_hanging_nodes_recursively(_, _)
\* the masters of node m that do not hang themselves, m if it does not hang;
\* master is the hanging scheme before its completion
complete_hanging_nodes_recursively(master, m) ==
  IF master[m] = {} THEN {m}
  ELSE UNION {complete_hanging_nodes_recursively(master, q) : q \in master[m]}

\* a completion that leaves the masters as the elements have set them
complete_hanging_nodes_Not(master) == master

\* complete_hanging_nodes: a master that hangs is replaced by its masters
complete_hanging_nodes(master) ==
  [p \in DOMAIN master |->
     IF master[p] = {} THEN {}
     ELSE complete_hanging_nodes_recursively(master, p)]

\* the hanging-node setup of the positions and velocities
setup_hanging_positions(np) ==
  LET hanging == HangingPositionEdges
      master == complete_hanging_nodes(
                  [p \in DOMAIN np |-> MastersFrom(hanging, p)]) IN
  [p \in DOMAIN np |->
     [np[p] EXCEPT !.position_hanging = master[p] # {},
                   !.position_master = master[p]]]

\* the edges of the leaves whose neighbour across the edge is a larger
\* leaf: the nodes of the edge that are none of the neighbour's pressure
\* nodes, and the neighbour's two pressure nodes on its side of the edge
HangingPressureEdges ==
  {[nodes |-> TaylorHoodNodesOnEdge(x[1], x[2])
                \ PressureNodes(gteq_edge_neighbour(x[1], x[2]).node),
    master |-> PressureNodes(gteq_edge_neighbour(x[1], x[2]).node)
                 \cap TaylorHoodNodesOnEdge(gteq_edge_neighbour(x[1], x[2]).node,
                                            gteq_edge_neighbour(x[1], x[2]).edge)] :
     x \in {y \in Range(MeshElements) \X Edges :
              /\ IsTaylorHood(y[1])
              /\ gteq_edge_neighbour(y[1], y[2]).node # NULL
              /\ gteq_edge_neighbour(y[1], y[2]).diff_level < 0}}

\* the hanging-node setup for the pressure: a pressure value on an edge that
\* lies on a larger leaf hangs on the pressure nodes of that leaf's edge
setup_hanging_pressures(np) ==
  LET hanging == HangingPressureEdges
      master == complete_hanging_nodes(
                  [p \in DOMAIN np |-> MastersFrom(hanging, p)]) IN
  [p \in DOMAIN np |->
     [np[p] EXCEPT !.hanging = master[p] # {}, !.master = master[p]]]

\* the splits of a behaviour of the forest of Taylor-Hood elements
MaxTaylorHoodSplits == 1

SplitTaylorHood(n) ==
  /\ NumBorn < NumTrees + NSons * MaxTaylorHoodSplits
  /\ split_if_required(n, TRUE)

\* the mesh follows a split: the nodes of the new elements are created and
\* the hanging pressure values are set up
TaylorHoodAdaptMesh ==
  /\ status = "live"
  /\ call.op = "split"
  /\ call.taken
  /\ Node_pt' =
       setup_hanging_pressures(setup_hanging_positions(
         [p \in UNION {TaylorHoodNodes(x) : x \in Range(MeshElements)} |->
            IF p \in DOMAIN Node_pt THEN Node_pt[p] ELSE NewTaylorHoodNode]))
  /\ call' = Call("adapt_mesh", call.node, TRUE, <<call.op, 0>>)
  /\ log' = <<>>
  /\ UNCHANGED <<trees, elems, Trees_pt, status, last_merged, tree_nodes,
                 global_number, numbered, qvars>>

\* unpin_elemental_pressure_dofs of the element of n
unpin_elemental_pressure_dofs(np, n) ==
  LET nodes == TaylorHoodNodes(n) IN
  [p \in DOMAIN np |->
     IF p \in nodes THEN [np[p] EXCEPT !.pinned = FALSE] ELSE np[p]]

\* a version that unpins the pressure nodes whether they hang or not
pin_elemental_redundant_nodal_pressure_dofs_AlsoHanging(np, n) ==
  LET nodes == TaylorHoodNodes(n)
      pressure_nodes == PressureNodes(n) IN
  [p \in DOMAIN np |->
     IF p \in pressure_nodes THEN [np[p] EXCEPT !.pinned = FALSE]
     ELSE IF p \in nodes THEN [np[p] EXCEPT !.pinned = TRUE]
     ELSE np[p]]

\* pin_elemental_redundant_nodal_pressure_dofs of the element of n: the loop
\* that pins the pressure at all nodes, then the loop over the pressure nodes
pin_elemental_redundant_nodal_pressure_dofs(np, n) ==
  LET nodes == TaylorHoodNodes(n)
      pressure_nodes == [l \in 0..(npres_pnst - 1) |-> pressure_node_pt(n, l)]
      all_pinned ==
        [p \in DOMAIN np |->
           IF p \in nodes THEN [np[p] EXCEPT !.pinned = TRUE] ELSE np[p]] IN
  [p \in DOMAIN np |->
     IF /\ \E l \in 0..(npres_pnst - 1) : pressure_nodes[l] = p
        /\ ~all_pinned[p].hanging
     THEN [all_pinned[p] EXCEPT !.pinned = FALSE]
     ELSE all_pinned[p]]

\* a call of an element's function that changes the nodes to np
ElementCall(op, n, np) ==
  /\ Idle
  /\ n \in LiveTrees
  /\ is_leaf(n)
  /\ Node_pt' = np
  /\ call' = Call(op, n, TRUE, <<>>)
  /\ UNCHANGED <<trees, elems, Trees_pt, status, last_merged, log, tree_nodes,
                 global_number, numbered, qvars>>

PinElementalRedundantNodalPressureDofs(n) ==
  ElementCall("pin_elemental_redundant_nodal_pressure_dofs", n,
              pin_elemental_redundant_nodal_pressure_dofs(Node_pt, n))

UnpinElementalPressureDofs(n) ==
  ElementCall("unpin_elemental_pressure_dofs", n,
              unpin_elemental_pressure_dofs(Node_pt, n))

InitTaylorHood ==
  /\ trees = InitHeap.trees
  /\ elems = InitHeap.elems
  /\ Trees_pt = [r \in 1..NumTrees |-> r]
  /\ status = "live"
  /\ call = NoCall
  /\ last_merged = NULL
  /\ log = <<>>
  /\ tree_nodes = <<>>
  /\ Constructed
  /\ Node_pt = [p \in UNION {TaylorHoodNodes(r) : r \in Roots} |->
                  NewTaylorHoodNode]
  /\ global_number = 0
  /\ numbered = FALSE

NextTaylorHood ==
  \/ \E n \in Ids : SplitTaylorHood(n)
  \/ TaylorHoodAdaptMesh
  \/ \E n \in Ids : PinElementalRedundantNodalPressureDofs(n)
  \/ \E n \in Ids : UnpinElementalPressureDofs(n)
  \/ MeshReturn

SpecTaylorHood == InitTaylorHood /\ [][NextTaylorHood]_allvars

\* ------------------------------------------------------ insert_load_data
\* the nodal indices of the velocities and of the pressure
u_index == <<0, 1>>
p_index == 2

\* the pressure degrees of freedom of a Crouzeix-Raviart element
npres_pnst_CrouzeixRaviart == 3

\* a pair of a pointer to a Data object and the index of a value in it; the
\* Data is the node at position p or the internal pressure data of element e
NodalPair(p, i) == << <<"node", p[1], p[2]>>, i >>
InternalPair(e, i) == << <<"internal", e, 0>>, i >>

\* the loop over the nodes of both versions of insert_load_data: the
\* velocities of the masters of a hanging node, else those of the node
VelocityLoadData(np, n) ==
  UNION {IF np[TaylorHood_node_pt(n, j)].position_hanging
         THEN {NodalPair(m, u_index[i]) :
                 m \in np[TaylorHood_node_pt(n, j)].position_master, i \in 1..2}
         ELSE {NodalPair(TaylorHood_node_pt(n, j), u_index[i]) : i \in 1..2} :
         j \in 0..(nnode - 1)}

\* a version whose pressure loop tests is_hanging() of the position
TaylorHood_insert_load_data_TestsPosition(np, n) ==
  VelocityLoadData(np, n)
  \cup UNION {IF np[pressure_node_pt(n, l)].position_hanging
              THEN {NodalPair(m, p_index) : m \in np[pressure_node_pt(n, l)].master}
              ELSE {NodalPair(pressure_node_pt(n, l), p_index)} :
              l \in 0..(npres_pnst - 1)}

\* RefineablePolarTaylorHoodElement::insert_load_data: the pairs it inserts
TaylorHood_insert_load_data(np, n) ==
  VelocityLoadData(np, n)
  \cup UNION {IF np[pressure_node_pt(n, l)].hanging
              THEN {NodalPair(m, p_index) : m \in np[pressure_node_pt(n, l)].master}
              ELSE {NodalPair(pressure_node_pt(n, l), p_index)} :
              l \in 0..(npres_pnst - 1)}

\* RefineablePolarCrouzeixRaviartElement::insert_load_data
CrouzeixRaviart_insert_load_data(np, n) ==
  VelocityLoadData(np, n)
  \cup {InternalPair(object_pt(n), l) : l \in 0..(npres_pnst_CrouzeixRaviart - 1)}

\* the virtual call on the element of leaf n; the set it is handed is empty
\* and call.pre keeps the pairs it has inserted
InsertLoadData(n) ==
  /\ Idle
  /\ n \in LiveTrees
  /\ is_leaf(n)
  /\ call' = Call("insert_load_data", n, TRUE,
                  << IF IsTaylorHood(n)
                     THEN TaylorHood_insert_load_data(Node_pt, n)
                     ELSE CrouzeixRaviart_insert_load_data(Node_pt, n) >>)
  /\ UNCHANGED <<trees, elems, Trees_pt, status, last_merged, log, tree_nodes,
                 mvars, qvars>>

\* a forest of Taylor-Hood elements or one of Crouzeix-Raviart elements
InitLoadData ==
  /\ trees = InitHeap.trees
  /\ \E P \in {<<>>, <<0, 0, 0>>} :
       elems = [e \in Ids |->
                  IF e \in Roots
                  THEN [InitHeap.elems[e] EXCEPT !.internal = P]
                  ELSE InitHeap.elems[e]]
  /\ Trees_pt = [r \in 1..NumTrees |-> r]
  /\ status = "live"
  /\ call = NoCall
  /\ last_merged = NULL
  /\ log = <<>>
  /\ tree_nodes = <<>>
  /\ Constructed
  /\ Node_pt = [p \in UNION {TaylorHoodNodes(r) : r \in Roots} |->
                  NewTaylorHoodNode]
  /\ global_number = 0
  /\ numbered = FALSE

NextLoadData ==
  \/ \E n \in Ids : split_if_required(n, TRUE)
  \/ TaylorHoodAdaptMesh
  \/ \E n \in Ids : InsertLoadData(n)
  \/ MeshReturn

SpecLoadData == InitLoadData /\ [][NextLoadData]_allvars

\* the unrefinement of a forest by a traversal of each tree
NextTraverseMerge ==
  \/ \E n \in Ids : split_if_required(n, TRUE)
  \/ \E n \in Ids : select_sons_for_unrefinement(n)
  \/ \E n \in Ids : TraverseAllMerge(n)
  \/ TraverseAllMergeStep
  \/ TraverseAllMergeReturn

SpecTraverseMerge == Init /\ [][NextTraverseMerge]_allvars

\* the positions a node can have
Positions == (0..(NumTrees * RootSize)) \X (0..RootSize)

\* the adaptation of the mesh on the forest
NextMesh ==
  \/ \E n \in Ids : split_if_required(n, TRUE)
  \/ \E n \in Ids : select_sons_for_unrefinement(n)
  \/ \E n \in LiveTrees :
       elems[object_pt(n)].Sons_to_be_unrefined /\ merge_sons_if_required(n)
  \/ AdaptMesh
  \/ \E p \in Positions : pin(p)
  \/ \E p \in Positions : unpin(p)
  \/ AssignEqnNumbers
  \/ MeshReturn

SpecMesh == Init /\ [][NextMesh]_allvars

\* the equation numbering of the refined mesh
NextNumbering ==
  \/ \E n \in Ids : split_if_required(n, TRUE)
  \/ AdaptMesh
  \/ \E p \in Positions : pin(p)
  \/ \E p \in Positions : unpin(p)
  \/ \E p \in Positions : set_hanging_pt(p)
  \/ AssignEqnNumbers
  \/ MeshReturn

SpecNumbering == Init /\ [][NextNumbering]_allvars

\* ===================================================================== claims
\* the tree as the father pointers describe it
RECURSIVE Ancestors(_)
Ancestors(n) ==
  IF trees[n].Father_pt = NULL THEN {}
  ELSE {trees[n].Father_pt} \cup Ancestors(trees[n].Father_pt)

Subtree(n) == {m \in LiveTrees : m = n \/ n \in Ancestors(m)}

SonsOf(n) == {trees[n].Son_pt[i] : i \in 1..Len(trees[n].Son_pt)}

\* positions of the events of one kind on one object in a log
Pos(l, kind, id) == {i \in 1..Len(l) : l[i].ev = kind /\ l[i].id = id}

\* the nodes a log of visits names, in order
Visited(l) == [i \in 1..Len(l) |-> l[i].id]

\* v lists every node of the subtree of n once, each node before its
\* descendants and the subtrees of the sons of a node in son index order
IsPreorderOf(v, n) ==
  /\ Range(v) = Subtree(n)
  /\ Len(v) = Cardinality(Subtree(n))
  /\ \A i, j \in 1..Len(v) : i < j => v[j] \notin Ancestors(v[i])
  /\ \A f \in Subtree(n) : \A a, b \in 1..Len(trees[f].Son_pt) :
       a < b => \A i, j \in 1..Len(v) :
                  (/\ v[i] \in Subtree(trees[f].Son_pt[a])
                   /\ v[j] \in Subtree(trees[f].Son_pt[b])) => i < j

\* C1: every live tree node has no sons or exactly four live sons, one each
\* of SW, SE, NW and NE, and is_leaf() holds exactly for the nodes whose sons
\* list is empty.
LeafInvariant ==
  status # "aborted" =>
    \A n \in LiveTrees :
      /\ is_leaf(n) <=> trees[n].Son_pt = <<>>
      /\ \/ trees[n].Son_pt = <<>>
         \/ /\ Len(trees[n].Son_pt) = 4
            /\ SonsOf(n) \subseteq LiveTrees
            /\ \A t \in {SW, SE, NW, NE} :
                 Cardinality({i \in 1..4 :
                    trees[trees[n].Son_pt[i]].Son_type = t}) = 1

\* a father is a leaf again after a merge while another node has four sons
LeafInvariantWitness ==
  /\ call.op = "merge" /\ call.taken /\ status = "live"
  /\ \E son \in Ids : Pos(log, "free_tree", son) # {}
  /\ is_leaf(call.node)
  /\ \E m \in LiveTrees : Len(trees[m].Son_pt) = 4

\* C2: level(node) = level(father) + 1 for every live node with a father;
\* every root of the forest has level 0 and a null father.
LevelInvariant ==
  status # "aborted" =>
    /\ \A n \in LiveTrees :
         trees[n].Father_pt # NULL =>
           /\ trees[n].Father_pt \in LiveTrees
           /\ trees[n].Level = trees[trees[n].Father_pt].Level + 1
    /\ \A n \in LiveTrees :
         trees[n].Father_pt = NULL => trees[n].Level = 0
    /\ \A i \in 1..Len(Trees_pt) :
         Trees_pt[i] # NULL =>
           trees[Trees_pt[i]].Level = 0 /\ trees[Trees_pt[i]].Father_pt = NULL

\* a node at level 2 exists after a merge elsewhere
LevelInvariantWitness ==
  /\ status = "live"
  /\ last_merged # NULL
  /\ \E n \in LiveTrees : trees[n].Level = 2

\* C3: splitting a root that is a single element yields exactly 4 leaves, all
\* at level 1 with the root as father, no leaf at level 0, and son i was
\* built by construct_son with the root as father and i as son type.
SplitRootYieldsFourLeaves ==
  (call.op = "split" /\ call.taken /\ trees[call.node].Father_pt = NULL) =>
    LET r == call.node
        leaves == {m \in Subtree(r) : is_leaf(m)} IN
    /\ Cardinality(leaves) = 4
    /\ \A m \in leaves : trees[m].Level = 1 /\ trees[m].Father_pt = r
    /\ \A m \in Subtree(r) : trees[m].Level = 0 => ~is_leaf(m)
    /\ leaves = SonsOf(r)
    /\ \A i \in 1..Len(trees[r].Son_pt) :
         LET son == trees[r].Son_pt[i] IN
         /\ trees[son].Son_type = i - 1
         /\ \E k \in Pos(log, "new_tree", son) :
              log[k].arg.Father_pt = r /\ log[k].arg.Son_type = i - 1

\* the second root has just been split
SplitRootWitness ==
  /\ call.op = "split" /\ call.taken /\ call.node = 2
  /\ Len(trees[2].Son_pt) = 4

\* the sons of n are all leaves
SonsAreLeaves(n) == \A son \in SonsOf(n) : is_leaf(son)

\* C4: a call of merge_sons_if_required on a node whose sons are all leaves:
\* if the element requests unrefinement then on return the sons list is
\* empty, every son and every son's element is destroyed, the node's own
\* element is alive and the request is withdrawn; if not, nothing changes.
MergeContract ==
  [][ call'.op = "merge" =>
        LET n == call'.node
            requested == elems[object_pt(n)].Sons_to_be_unrefined IN
        /\ call'.taken = requested
        /\ (requested /\ SonsAreLeaves(n)) =>
             /\ status' = "live"
             /\ trees'[n].Son_pt = <<>>
             /\ trees'[n].mem = Alive
             /\ \A son \in SonsOf(n) :
                  /\ trees'[son].mem = Deleted
                  /\ elems'[object_pt(son)].deletes = 1
             /\ elems'[object_pt(n)].deletes = 0
             /\ ~elems'[object_pt(n)].Sons_to_be_unrefined
        /\ ~requested =>
             /\ log' = <<>>
             /\ UNCHANGED <<trees, elems, Trees_pt, status>>
  ]_vars

\* a node with four leaf sons has been merged
MergeContractWitness ==
  /\ call.op = "merge" /\ call.taken /\ status = "live"
  /\ Cardinality({i \in 1..Len(log) : log[i].ev = "free_tree"}) = 4
  /\ Cardinality({i \in 1..Len(log) : log[i].ev = "delete_object"}) = 4
  /\ trees[call.node].Son_pt = <<>>

\* C5: in a merging call rebuild_from_sons of the father runs first, before
\* any son is unbuilt or deleted; each son is unbuilt, then its element is
\* deleted, then its tree node; deselect_sons_for_unrefinement runs after the
\* sons list has been emptied.
MergeOrder ==
  [][ (call'.op = "merge" /\ call'.taken) =>
        LET n == call'.node
            l == log' IN
        /\ l[1] = EvArg("rebuild_from_sons", object_pt(n), n)
        /\ \A i \in 2..Len(l) : l[i].ev # "rebuild_from_sons"
        /\ \A son \in SonsOf(n) :
             \A k \in Pos(l, "free_tree", son) :
               \E i, j \in 1..Len(l) :
                 /\ 1 < i /\ i < j /\ j < k
                 /\ l[i] = EvArg("unbuild", object_pt(son), n)
                 /\ l[j] = EvArg("delete_object", object_pt(son), n)
        /\ \A i \in 1..Len(l) :
             l[i].ev = "deselect_sons_for_unrefinement" =>
               \E j \in 1..(i - 1) : l[j] = EvArg("set_sons", n, <<>>)
        /\ status' = "live" =>
             /\ \A son \in SonsOf(n) : Pos(l, "free_tree", son) # {}
             /\ l[Len(l)] =
                  EvArg("deselect_sons_for_unrefinement", object_pt(n), n)
  ]_vars

\* a merging call that unbuilt and deleted sons has returned
MergeOrderWitness ==
  /\ call.op = "merge" /\ call.taken /\ status = "live"
  /\ \E i \in 1..Len(log) : log[i].ev = "unbuild"
  /\ log[Len(log)].ev = "deselect_sons_for_unrefinement"

\* C6: a call of merge_sons_if_required that immediately follows a merging
\* call on the same node performs no rebuild_from_sons, no unbuild and no
\* deletion and leaves the heaps unchanged.
MergeOncePerEvent ==
  [][ (call'.op = "merge" /\ last_merged = call'.node) =>
        /\ ~call'.taken
        /\ log' = <<>>
        /\ UNCHANGED <<trees, elems, Trees_pt, status>>
  ]_vars

\* the repeated call has returned
MergeOncePerEventWitness ==
  /\ call.op = "merge" /\ last_merged = call.node /\ ~call.taken
  /\ status = "live"

\* the nodes a call destroys: the forest, or what is below the merged node
Doomed(c) ==
  IF c.op = "delete_forest" THEN LiveTrees
  ELSE IF c.op = "merge" /\ c.taken THEN Subtree(c.node) \ {c.node}
  ELSE {}

\* C7: destruction destroys every tree node of the subtree (forest) exactly
\* once, a node's sons before the node's own element is deleted, and deletes
\* the element of exactly the nodes that had sons; the element of a leaf is
\* never deleted by tree destruction.
DestructionContract ==
  [][ call'.op \in {"delete_forest", "merge"} =>
        LET D == Doomed(call')
            l == log' IN
        /\ \A m \in Ids :
             Cardinality(Pos(l, "free_tree", m)) <= (IF m \in D THEN 1 ELSE 0)
        /\ \A i \in 1..Len(l) :
             l[i].ev = "dtor_delete_object" =>
               LET m == l[i].arg IN
               /\ m \in D
               /\ nsons(m) > 0
               /\ l[i].id = object_pt(m)
               /\ \A son \in SonsOf(m) :
                    \E j \in 1..(i - 1) : l[j] = Ev("free_tree", son)
               /\ \A j \in 1..Len(l) :
                    (l[j].ev = "dtor_delete_object" /\ l[j].arg = m) => j = i
        /\ status' # "aborted" =>
             \A m \in D :
               /\ Pos(l, "free_tree", m) # {}
               /\ trees'[m].mem = Deleted
               /\ nsons(m) > 0 =>
                    \E i \in 1..Len(l) :
                      l[i] = EvArg("dtor_delete_object", object_pt(m), m)
        /\ call'.op = "delete_forest" =>
             \A m \in D :
               nsons(m) = 0 =>
                 elems'[object_pt(m)].deletes = elems[object_pt(m)].deletes
  ]_vars

\* a forest has been destroyed that held a node with sons and a father that
\* had become a leaf again after a merge
DestructionContractWitness ==
  /\ call.op = "delete_forest" /\ status = "destroyed"
  /\ \E i \in 1..Len(log) : log[i].ev = "dtor_delete_object"
  /\ \E f, son \in Ids :
       /\ Pos(log, "free_tree", f) # {}
       /\ Pos(log, "free_tree", son) = {}
       /\ trees[son].mem = Deleted
       /\ trees[son].Father_pt = f
       /\ elems[trees[f].Object_pt].deletes = 0

\* C8: traverse_all (both overloads) with a member function that leaves the
\* tree alone executes it exactly once at every node of the subtree, in
\* preorder: a node before its descendants, sons in increasing son index.
TraverseAllPreorder ==
  call.op \in {"traverse_all", "traverse_all_mesh"} =>
    /\ \A i \in 1..Len(log) : log[i].ev = "visit"
    /\ IsPreorderOf(Visited(log), call.node)

\* a tree of depth two has been traversed from its root
TraverseAllWitness ==
  /\ call.op = "traverse_all_mesh"
  /\ trees[call.node].Father_pt = NULL
  /\ Len(log) = 9
  /\ \E m \in Range(Visited(log)) : trees[m].Level = 2

\* C9: traverse_leaves executes the member function exactly at the nodes of
\* the subtree without sons and traverse_all_but_leaves exactly at those with
\* sons, each once; the two sets are disjoint and their union is what
\* traverse_all visits; on a single leaf traverse_all_but_leaves does nothing.
LeavesAndNonLeaves ==
  LET n == call.node
      v == Visited(log)
      leaves == {m \in Subtree(n) : trees[m].Son_pt = <<>>}
      others == {m \in Subtree(n) : trees[m].Son_pt # <<>>} IN
  /\ call.op \in {"traverse_leaves", "traverse_leaves_mesh"} =>
       /\ Range(v) = leaves
       /\ Len(v) = Cardinality(leaves)
       /\ Range(v) \cap Range(Visited(traverse_all_but_leaves(n))) = {}
       /\ Range(v) \cup Range(Visited(traverse_all_but_leaves(n)))
            = Range(Visited(traverse_all(n)))
  /\ call.op = "traverse_all_but_leaves" =>
       /\ Range(v) = others
       /\ Len(v) = Cardinality(others)
       /\ Range(v) \cap Range(Visited(traverse_leaves(n))) = {}
       /\ Range(v) \cup Range(Visited(traverse_leaves(n)))
            = Range(Visited(traverse_all(n)))
       /\ trees[n].Son_pt = <<>> => log = <<>>

\* the non-leaves of a tree of depth two have been traversed
LeavesAndNonLeavesWitness ==
  /\ call.op = "traverse_all_but_leaves"
  /\ Len(log) = 2
  /\ Cardinality(Subtree(call.node)) = 9

\* the leaves among the nodes of v, in the order of v
LeavesOf(v) == SelectSeq(v, LAMBDA m : trees[m].Son_pt = <<>>)

\* what follows the caller's content pre in the vector v
Appended(v, pre) == SubSeq(v, Len(pre) + 1, Len(v))

\* C10: stick_all_tree_nodes_into_vector appends every node of the tree once
\* in preorder and keeps the vector's previous content as a prefix;
\* stick_leaves_into_vector appends the leaves among them in the same order;
\* the TreeForest versions append the per-root results in tree index order.
StickContract ==
  LET n == call.node
      pre == call.pre
      app == Appended(tree_nodes, pre) IN
  /\ call.op \in {"stick_all", "stick_leaves",
                  "forest_stick_all", "forest_stick_leaves"} =>
       /\ Len(tree_nodes) >= Len(pre)
       /\ SubSeq(tree_nodes, 1, Len(pre)) = pre
  /\ call.op = "stick_all" => IsPreorderOf(app, n)
  /\ call.op = "stick_leaves" =>
       app = LeavesOf(stick_all_tree_nodes_into_vector(n, <<>>))
  /\ call.op = "forest_stick_all" =>
       app = Flatten([i \in 1..Len(Trees_pt) |->
                        stick_all_tree_nodes_into_vector(Trees_pt[i], <<>>)])
  /\ call.op = "forest_stick_leaves" =>
       app = Flatten([i \in 1..Len(Trees_pt) |->
                        stick_leaves_into_vector(Trees_pt[i], <<>>)])

\* the leaves of a forest with a refined and an unrefined tree have been
\* appended to a vector that was not empty
StickContractWitness ==
  /\ call.op = "forest_stick_leaves"
  /\ call.pre # <<>>
  /\ Len(tree_nodes) = Len(call.pre) + 8
  /\ \E i \in 1..Len(Trees_pt) : trees[Trees_pt[i]].Son_pt = <<>>

\* the default constructors
EmptyConstructors == {"QuadTree", "QuadTreeForest"}

\* C11: a call of the default constructor of QuadTree or of QuadTreeForest
\* always ends with an OomphLibError that names the function and the place it
\* was thrown, and leaves no tree node and no forest behind.
EmptyConstructorsFail ==
  [][ returned'.kind \in EmptyConstructors =>
        /\ status' = "failed"
        /\ error'.what # ""
        /\ error'.function # ""
        /\ error'.location # ""
        /\ UNCHANGED <<trees, elems, Trees_pt>>
  ]_allvars

\* the default constructor of QuadTree has thrown
EmptyConstructorsFailWitness ==
  /\ returned.kind = "QuadTree"
  /\ error.function = "QuadTree::QuadTree"
  /\ status = "failed"

\* a step that constructs a QuadTreeRoot
RootConstruction == returned'.kind = "QuadTreeRoot" /\ status = "constructing"

\* C12 as stated: a QuadTreeRoot constructed while Static_data_has_been_setup
\* is false ends with an OomphLibError and no root results.
NoRootBeforeSetup ==
  [][ (RootConstruction /\ ~Static_data_has_been_setup) =>
        /\ error' # NoError
        /\ trees'[returned'.node].mem # Alive
  ]_allvars

\* C12, amended: in a build that defines PARANOID, constructing a QuadTreeRoot
\* while Static_data_has_been_setup is false ends with an OomphLibError of the
\* constructor and no root results; a build without PARANOID makes no check
\* and constructs the root; once the static data is set up every build
\* constructs it.
NoRootBeforeSetupIfParanoid ==
  [][ RootConstruction =>
        LET r == returned'.node IN
        IF PARANOID /\ ~Static_data_has_been_setup
        THEN /\ error'.function = "QuadTreeRoot::QuadTreeRoot"
             /\ error'.location # ""
             /\ status' = "failed"
             /\ trees'[r].mem # Alive
             /\ North_equivalent'[r] = <<>>
        ELSE /\ error' = NoError
             /\ status' = "constructing"
             /\ trees'[r].mem = Alive
             /\ trees'[r].Root_pt = r
             /\ \A d \in Edges : North_equivalent'[r][d] = N
  ]_allvars

\* the checked build has refused the first root
NoRootBeforeSetupWitness ==
  /\ PARANOID
  /\ ~Static_data_has_been_setup
  /\ returned.kind = "QuadTreeRoot"
  /\ status = "failed"
  /\ trees[returned.node].mem = Deleted

\* C13 as stated: for every argument other than N, S, E and W
\* north_equivalent raises an error and returns no table entry.
OnlyEdgesAccepted ==
  (call.op = "north_equivalent" /\ call.pre[1] \notin Edges) =>
    /\ error # NoError
    /\ returned = NoResult

\* C13, amended: in a build that defines PARANOID, north_equivalent raises its
\* usage error and returns no entry for SW, SE, NW, NE and OMEGA; N, S, E and
\* W return their entry in every build; a build without PARANOID makes no
\* check and returns North_equivalent[neighbour] for every index 0..26.
OnlyEdgesAcceptedIfParanoid ==
  call.op = "north_equivalent" =>
    LET r == call.node
        neighbour == call.pre[1] IN
    /\ (PARANOID /\ neighbour \in Directions \ Edges) =>
         /\ error = NorthEquivalentError
         /\ error.function # "" /\ error.location # ""
         /\ returned = NoResult
         /\ status = "failed"
    /\ (neighbour \in Edges \/ (~PARANOID /\ neighbour \in 0..26)) =>
         /\ error = NoError
         /\ status = "live"
         /\ returned = Value("north_equivalent", North_equivalent[r][neighbour])

\* the checked build has refused OMEGA
OnlyEdgesAcceptedWitness ==
  /\ PARANOID
  /\ call.op = "north_equivalent"
  /\ call.pre = <<OMEGA>>
  /\ status = "failed"
  /\ error = NorthEquivalentError

\* the node of level l on the path from the root to a
AncestorOrSelfAtLevel(a, l) ==
  CHOOSE m \in {a} \cup Ancestors(a) : trees[m].Level = l

\* C14: if gteq_edge_neighbour(D) of node A returns B, then B is alive and not
\* smaller than A, diff_level = level(B) - level(A) <= 0, the search from B in
\* the returned direction edge finds A or the ancestor of A of B's size, and
\* edge is the reflection of D when the trees of A and B are not turned
\* against each other.
NeighbourSymmetry ==
  (call.op = "gteq_edge_neighbour" /\ returned.node # NULL) =>
    LET A == call.node
        D == call.pre[1]
        B == returned.node
        back == gteq_edge_neighbour(B, returned.edge) IN
    /\ B \in LiveTrees
    /\ returned.diff_level = trees[B].Level - trees[A].Level
    /\ returned.diff_level <= 0
    /\ returned.in_neighbouring_tree <=> trees[A].Root_pt # trees[B].Root_pt
    /\ returned.edge \in Edges
    /\ back.node = AncestorOrSelfAtLevel(A, trees[B].Level)
    /\ rotation[trees[A].Root_pt] = rotation[trees[B].Root_pt] =>
         returned.edge = Reflect_edge(D)

\* a son has found a son of a root that is turned against its own
NeighbourSymmetryWitness ==
  /\ call.op = "gteq_edge_neighbour"
  /\ returned.node # NULL
  /\ returned.in_neighbouring_tree
  /\ trees[returned.node].Level = 1
  /\ rotation[trees[call.node].Root_pt] # rotation[trees[returned.node].Root_pt]
  /\ returned.edge # Reflect_edge(call.pre[1])

\* the quarter turns of the compass of root b against that of root a
RelativeRotation(a, b) == (rotation[b] - rotation[a]) % 4

\* C15: in a forest, if root b is the neighbour of root a in direction d then
\* b lies where d points, a is the neighbour of b in some direction, and
\* a.north_equivalent(d) is the direction of b that points where the north of
\* a points: N without relative rotation, E when the compass of b is a
\* quarter turn anticlockwise from that of a.
NorthEquivalentsConsistent ==
  status = "live" =>
    \A a \in Range(Trees_pt), d \in Edges :
      LET b == Neighbour_pt[a][d] IN
      /\ b # NULL <=>
           \/ a < NumTrees /\ GlobalDir(a, d) = E
           \/ a > 1 /\ GlobalDir(a, d) = W
      /\ b # NULL =>
           /\ b = IF GlobalDir(a, d) = E THEN a + 1 ELSE a - 1
           /\ \E back \in Edges : Neighbour_pt[b][back] = a
           /\ North_equivalent[a][d] \in Edges
           /\ GlobalDir(b, North_equivalent[a][d]) = GlobalDir(a, N)
           /\ RelativeRotation(a, b) = 0 => North_equivalent[a][d] = N
           /\ RelativeRotation(a, b) = 1 => North_equivalent[a][d] = E

\* two roots glued with a quarter turn between them
NorthEquivalentsWitness ==
  /\ status = "live"
  /\ \E a \in Range(Trees_pt), d \in Edges :
       /\ Neighbour_pt[a][d] # NULL
       /\ RelativeRotation(a, Neighbour_pt[a][d]) = 1
       /\ North_equivalent[a][d] = E

\* the values of the mesh: one at every node of an element of the mesh
Values == RequiredNodes

\* the values the last pass gave an equation number
Free == {p \in Values : Node_pt[p].eqn_number >= 0}

\* the steps of the pass in log that classified the value p
Classified(p) == {i \in 1..Len(log) : log[i].ev \in Classes /\ log[i].arg = p}

RECURSIVE PathTo(_)
\* the way from the forest to tree node n: the index of its tree, then the
\* son indices
PathTo(n) ==
  IF trees[n].Father_pt = NULL
  THEN << CHOOSE i \in 1..Len(Trees_pt) : Trees_pt[i] = n >>
  ELSE Append(PathTo(trees[n].Father_pt),
              CHOOSE i \in 1..nsons(trees[n].Father_pt) :
                trees[trees[n].Father_pt].Son_pt[i] = n)

\* leaf a comes before leaf b in the preorder traversal of the forest
LeafBefore(a, b) ==
  LET u == PathTo(a)
      v == PathTo(b) IN
  \E k \in 1..Len(u) :
     /\ k <= Len(v)
     /\ u[k] < v[k]
     /\ \A j \in 1..(k - 1) : u[j] = v[j]

\* the equation numbers of the free values grow in the order in which the
\* preorder traversal of the forest first meets their nodes: leaf by leaf,
\* the nodes of a leaf in local order
PreorderNumbered ==
  LET leaves == {n \in LiveTrees : is_leaf(n)}
      rank == [a \in leaves |-> Cardinality({b \in leaves : LeafBefore(b, a)})]
      nodes == [a \in leaves |-> ElementNodes(a)]
      met == [p \in Free |->
                Min({rank[x[1]] * NSons + x[2] :
                       x \in {y \in leaves \X (1..NSons) : nodes[y[1]][y[2]] = p}})]
  IN \A p, q \in Free :
       met[p] < met[q] => Node_pt[p].eqn_number < Node_pt[q].eqn_number

Violations ==
  {i \in 1..Len(NumberingOrder) :
     LET nd == Node_pt[NumberingOrder[i]] IN
     \/ nd.pinned /\ nd.hanging
     \/ nd.hanging /\ nd.master = {}}

SonOnlyNodes(n) ==
  UNION {Range(ElementNodes(s)) :
           s \in {d \in Ids : trees[d].mem = Deleted /\ trees[d].Father_pt = n}}
    \ RequiredNodes

\* C19: once the mesh has followed a merge (the sons' elements unbuilt, the
\* obsolete nodes reclaimed, the hanging nodes set up again), every node of an
\* element of the mesh exists and is not obsolete, every master of such a
\* node is itself a node of an element of the mesh and therefore none of the
\* nodes that belonged only to the destroyed sons, and those nodes are no
\* longer in the mesh at all.
NoOrphanMasters ==
  (call.op = "adapt_mesh" /\ call.pre[1] = "merge") =>
    /\ \A p \in RequiredNodes :
         /\ p \in DOMAIN Node_pt
         /\ ~Node_pt[p].obsolete
         /\ Node_pt[p].master \subseteq DOMAIN Node_pt
         /\ Node_pt[p].master \subseteq RequiredNodes
         /\ Node_pt[p].master \cap SonOnlyNodes(call.node) = {}
    /\ call.pre[2] = NSons => SonOnlyNodes(call.node) \cap DOMAIN Node_pt = {}

\* the mesh has followed a merge of four leaves that destroyed nodes of the
\* sons only, and a node of the merged element is a master of a hanging node
NoOrphanMastersWitness ==
  /\ call.op = "adapt_mesh"
  /\ call.pre = <<"merge", NSons>>
  /\ SonOnlyNodes(call.node) # {}
  /\ \E p \in RequiredNodes :
       /\ Node_pt[p].hanging
       /\ Node_pt[p].master \cap Range(ElementNodes(call.node)) # {}

\* the positions on the edge d of the element of n, its ends included
EdgePoints(n, d) ==
  LET b == Box(n) IN
  CASE d = N -> {<<x, b.y + b.h>> : x \in b.x..(b.x + b.h)}
    [] d = S -> {<<x, b.y>> : x \in b.x..(b.x + b.h)}
    [] d = E -> {<<b.x + b.h, y>> : y \in b.y..(b.y + b.h)}
    [] d = W -> {<<b.x, y>> : y \in b.y..(b.y + b.h)}

\* p lies on an edge of a leaf without being one of the leaf's nodes
InsideEdgeOfLeaf(p) ==
  \E c \in Range(MeshElements), e \in Edges :
    p \in EdgePoints(c, e) \ NodesOnEdge(c, e)

\* the masters of such a node: the nodes at the ends of those edges
MastersOf(p) ==
  UNION {NodesOnEdge(x[1], x[2]) :
           x \in {y \in Range(MeshElements) \X Edges :
                    p \in EdgePoints(y[1], y[2]) \ NodesOnEdge(y[1], y[2])}}

\* the edges of the leaf n across which an unrefined element of its own size
\* lies
EdgesToUnrefinedNeighbour(n) ==
  {d \in Edges :
     LET nb == gteq_edge_neighbour(n, d) IN
     /\ nb.node # NULL
     /\ nb.diff_level = 0
     /\ nsons(nb.node) = 0}

\* the mesh has just followed the merge of the four leaves of n
UnrefinedAgain(n) ==
  /\ call.op = "adapt_mesh"
  /\ call.pre = <<"merge", NSons>>
  /\ call.node = n

\* the numbering pass that follows the merge of n has completed
NumberedAfterMerge(n) ==
  /\ call.op = "assign_eqn_numbers"
  /\ call.taken
  /\ last_merged = n
  /\ n \in LiveTrees
  /\ nsons(n) = 0

DeadTrees == {d \in Ids : trees[d].mem = Deleted}
DeadElems == {e \in Ids : elems[e].deletes > 0}

\* C21: merge is destructive. A tree node or an element that has been
\* destroyed stays destroyed; no live node of the forest has a destroyed tree
\* node in its sons list, and no son in a sons list holds a destroyed
\* element; the sons that a split puts under a father, and their elements,
\* are objects that did not exist before the split, so they are distinct
\* from every son destroyed earlier.
MergeIsDestructive ==
  [][ status' # "aborted" =>
        /\ DeadTrees \subseteq DeadTrees'
        /\ DeadElems \subseteq DeadElems'
        /\ \A n \in LiveTrees' :
             \A i \in 1..Len(trees'[n].Son_pt) :
               /\ trees'[n].Son_pt[i] \notin DeadTrees'
               /\ trees'[trees'[n].Son_pt[i]].Object_pt \notin DeadElems'
        /\ (call'.op = "split" /\ call'.taken) =>
             \A i \in 1..Len(trees'[call'.node].Son_pt) :
               LET son == trees'[call'.node].Son_pt[i] IN
               /\ trees[son].mem = Unborn
               /\ ~elems[trees'[son].Object_pt].born
               /\ son \notin DeadTrees
               /\ trees'[son].Object_pt \notin DeadElems
  ]_allvars

\* a father whose sons were merged away has been split again: it has four
\* live sons and four destroyed ones
MergeIsDestructiveWitness ==
  /\ call.op = "split"
  /\ call.taken
  /\ Cardinality({d \in DeadTrees : trees[d].Father_pt = call.node}) = NSons
  /\ Cardinality(SonsOf(call.node) \cap LiveTrees) = NSons
  /\ \A d \in DeadTrees : elems[d].deletes = 1

\* value 0 of the internal pressure of the element of tree node s
CentralPressure(s) == elems[object_pt(s)].internal[1]

\* the sons of n hold the internal pressure that further_build gave them
\* when n was split: no solve has changed them since
SonsAsBuilt(n) ==
  /\ nsons(n) = NSons
  /\ \A i \in 1..NSons :
       /\ son_pt(n, i - 1) \in LiveTrees
       /\ object_pt(son_pt(n, i - 1)) \in LiveElems
       /\ elems[object_pt(son_pt(n, i - 1))].internal
            = further_build(Heap, object_pt(son_pt(n, i - 1)))

\* C22: a father whose internal pressure is <<p, 0, 0>> and whose four sons
\* still hold what further_build gave them is merged: rebuild_from_sons
\* leaves the father with value 0 = p, the average of the sons' value 0, and
\* with the two slopes 0, the averages of the sons' differences SE-SW, NE-NW
\* and NE-SE, NW-SW.
PressureRoundTrip ==
  [][ \A n \in LiveTrees :
        ( /\ call'.op = "merge" /\ call'.node = n /\ call'.taken
          /\ status' = "live"
          /\ elems[object_pt(n)].internal # <<>>
          /\ elems[object_pt(n)].internal[2] = 0
          /\ elems[object_pt(n)].internal[3] = 0
          /\ SonsAsBuilt(n) ) =>
        LET after == elems'[object_pt(n)].internal
            v(q) == CentralPressure(son_pt(n, q)) IN
        /\ after = elems[object_pt(n)].internal
        /\ 4 * after[1] = v(SW) + v(SE) + v(NW) + v(NE)
        /\ 2 * after[2] = (v(SE) - v(SW)) + (v(NE) - v(NW))
        /\ 2 * after[3] = (v(NE) - v(SE)) + (v(NW) - v(SW))
        /\ after[2] = 0 /\ after[3] = 0
  ]_allvars

\* the four leaves of a father with the constant pressure MaxPressure have
\* been merged and the father holds that pressure again
PressureRoundTripWitness ==
  /\ call.op = "merge"
  /\ call.taken
  /\ status = "live"
  /\ Cardinality({i \in 1..Len(log) : log[i].ev = "free_tree"}) = NSons
  /\ elems[object_pt(call.node)].internal = <<MaxPressure * PressureUnit, 0, 0>>
  /\ MaxPressure # 0

\* the directions in the order in which direction_of_neighbour tests them
CompassOrder == <<N, E, S, W>>

\* C23: direction_of_neighbour(r) returns the first direction d in the order
\* N, E, S, W with Neighbour_pt[d] = r if r is a neighbour root, and OMEGA if
\* r is not a neighbour, a null r included.
DirectionOfNeighbourContract ==
  (call.op = "direction_of_neighbour") =>
    LET found == {i \in 1..4 : /\ call.pre[1] # NULL
                               /\ Neighbour_pt[call.node][CompassOrder[i]]
                                    = call.pre[1]} IN
    returned.value = IF found = {} THEN OMEGA ELSE CompassOrder[Min(found)]

RECURSIVE TopOfFatherChain(_)
\* the node without father that the father pointers of n lead to
TopOfFatherChain(n) ==
  IF trees[n].Father_pt = NULL THEN n ELSE TopOfFatherChain(trees[n].Father_pt)

\* C24: in every state that split and merge operations lead to, every live
\* node that has a father reports the root its father reports, and the root
\* every live node reports is the node without father at the top of its
\* father chain, which is a tree of the forest.
RootPointerInvariant ==
  \A n \in LiveTrees :
    /\ trees[n].Father_pt # NULL =>
         /\ trees[n].Father_pt \in LiveTrees
         /\ trees[n].Root_pt = trees[trees[n].Father_pt].Root_pt
    /\ trees[n].Root_pt = TopOfFatherChain(n)
    /\ trees[n].Root_pt \in LiveTrees
    /\ trees[n].Root_pt \in Range(Trees_pt)

\* a tree has been refined twice and a merge has been made: a node two
\* levels below its root is alive after a merge
RootPointerWitness ==
  /\ last_merged # NULL
  /\ \E n \in LiveTrees :
       /\ trees[n].Level = 2
       /\ trees[n].Root_pt # trees[n].Father_pt
       /\ trees[n].Root_pt = TopOfFatherChain(n)

\* the events the traversal has added to the log in a step
NewEvents == SubSeq(log', (IF call.op = "traverse_all_merge" THEN Len(log) ELSE 0) + 1,
                    Len(log'))

\* the nodes the member function has been called on, in the order of the calls
Called_on(l) == Visited(SelectSeq(l, LAMBDA e : e.ev = "visit"))

\* C25: while traverse_all executes merge_sons_if_required, every node the
\* member function is called on is alive at the call and has not been freed
\* by an earlier event of the traversal, and the number of sons the loop
\* uses is the number the node has after the call; when the traversal has
\* returned, the nodes it has called the function on are exactly the nodes
\* of the tree as the merges have left it, in preorder.
TraversalSkipsDestroyed ==
  /\ [][ (call'.op = "traverse_all_merge" /\ NewEvents # <<>>) =>
           LET s == NewEvents[1].id IN
           /\ NewEvents[1].ev = "visit"
           /\ s \in LiveTrees
           /\ call.op = "traverse_all_merge" =>
                \A j \in 1..Len(log) : ~(log[j].ev = "free_tree" /\ log[j].id = s)
           /\ status' = "live" =>
                /\ call'.pre[Len(call'.pre)].node = s
                /\ call'.pre[Len(call'.pre)].numsons = Len(trees'[s].Son_pt)
                /\ \A i \in 1..Len(trees'[s].Son_pt) :
                     trees'[trees'[s].Son_pt[i]].mem = Alive
     ]_allvars
  /\ [] ((call.op = "traverse_all_merge" /\ status = "live" /\ call.pre = <<>>) =>
           Called_on(log) = Visited(traverse_all(call.node)))

\* a traversal from a root has merged the sons of a node below the root and
\* has returned to the root's loop without a call on the destroyed sons
TraversalSkipsDestroyedWitness ==
  /\ call.op = "traverse_all_merge"
  /\ status = "live"
  /\ trees[call.node].Father_pt = NULL
  /\ \E i \in 1..Len(log) :
       /\ log[i].ev = "rebuild_from_sons"
       /\ trees[log[i].arg].Father_pt = call.node
       /\ \E j \in (i + 1)..Len(log) :
            log[j].ev = "visit" /\ trees[log[j].id].Father_pt = call.node
  /\ Cardinality({i \in 1..Len(log) : log[i].ev = "free_tree"}) = NSons

\* C26: in a call of merge_sons_if_required no element object is deleted
\* twice, whatever the shape of the tree below the merging node.
MergeDeletesOnce ==
  call.op = "merge" =>
    \A i, j \in 1..Len(log) :
      (IsDelete(log[i]) /\ IsDelete(log[j]) /\ log[i].id = log[j].id) => i = j

\* C27: when merge_sons_if_required invokes rebuild_from_sons on the element
\* of a node, the node has its NSons sons and all of them are alive; it is
\* never invoked on a node without sons.
RebuildHasSons ==
  [][ call'.op = "merge" =>
        \A i \in 1..Len(log') :
          log'[i].ev = "rebuild_from_sons" =>
            /\ nsons(log'[i].arg) = NSons
            /\ \A ison \in 0..(NSons - 1) : son_pt(log'[i].arg, ison) \in LiveTrees
    ]_allvars

\* C28: for every live tree node n, the element n.object_pt() refers back to
\* n: tree_pt() of the element is n.  It holds from the construction of a
\* root or a son on, and for a father after its sons have been merged away.
ObjectRefersBack ==
  \A n \in LiveTrees :
    /\ object_pt(n) \in Ids
    /\ elems[object_pt(n)].Tree_pt = n

\* a son built by a split has been split itself and has had its sons merged
\* away, and its element refers back to it
ObjectRefersBackWitness ==
  /\ call.op = "merge"
  /\ status = "live"
  /\ call.node \in LiveTrees
  /\ trees[call.node].Father_pt # NULL
  /\ is_leaf(call.node)
  /\ elems[object_pt(call.node)].born
  /\ elems[object_pt(call.node)].deletes = 0
  /\ elems[object_pt(call.node)].Tree_pt = call.node
  /\ \E i \in 1..Len(log) : log[i].ev = "free_tree"

\* C29: after pin_elemental_redundant_nodal_pressure_dofs on an element,
\* whatever the pin state was before, the pressure value of a node of the
\* element is unpinned exactly when the node is one of the element's pressure
\* nodes and its pressure value is not hanging, every other pressure value of
\* the element is pinned, and a second call changes nothing.
RedundantPressuresPinned ==
  call.op = "pin_elemental_redundant_nodal_pressure_dofs" =>
    /\ \A j \in 0..(nnode - 1) :
         LET p == TaylorHood_node_pt(call.node, j) IN
         ~Node_pt[p].pinned <=>
            /\ \E l \in 0..(npres_pnst - 1) : Pconv[l + 1] = j
            /\ ~Node_pt[p].hanging
    /\ pin_elemental_redundant_nodal_pressure_dofs(Node_pt, call.node) = Node_pt

\* the function has been called on an element that has a hanging pressure
\* node, next to an element whose call had unpinned that node or after all
\* the pressures of the element had been unpinned
RedundantPressuresPinnedWitness ==
  /\ call.op = "pin_elemental_redundant_nodal_pressure_dofs"
  /\ \E p \in PressureNodes(call.node) : Node_pt[p].hanging /\ Node_pt[p].pinned
  /\ \E p \in PressureNodes(call.node) : ~Node_pt[p].hanging /\ ~Node_pt[p].pinned
  /\ \E p \in DOMAIN Node_pt \ TaylorHoodNodes(call.node) : ~Node_pt[p].pinned
  /\ \E p \in DOMAIN Node_pt \ TaylorHoodNodes(call.node) : Node_pt[p].pinned

\* the value with index i of the Data d hangs
ValueHangs(d, i) ==
  /\ d[1] = "node"
  /\ IF i = p_index THEN Node_pt[<<d[2], d[3]>>].hanging
     ELSE Node_pt[<<d[2], d[3]>>].position_hanging

====
